---- MODULE Spec2Model ----
(***************************************************************************)
(* Verification model of pacman-token-manager.                             *)
(*                                                                         *)
(*   SpecAlert   pacman/monitoring/threshold_alert.py  ThresholdAlert      *)
(*   SpecNotif   claude_monitor/ui/display_controller.py                   *)
(*               DisplayController._check_notifications                    *)
(*   SpecAction  pacman/terminal/input_handler.py and the guidance step of *)
(*               pacman/ui/simple_display.py, one handler at a time        *)
(*   SpecActionConc  the same handlers as two threads (the data-update     *)
(*               callback and the keyboard loop of pacman/cli/main.py),    *)
(*               one step per read or write of the shared ActionState      *)
(*   SpecGuidance  pacman/ui/guidance.py  get_primary_guidance and         *)
(*               detect_task_type, applied to every input of a bounded set *)
(*   SpecCalc    claude_monitor/ui/display_controller.py                   *)
(*               calculate_time_data and calculate_cost_predictions as the *)
(*               simple display and the session display call them          *)
(*                                                                         *)
(*   SpecBorder  claude_monitor/ui/display_controller.py  PacManBorder:    *)
(*               advance() called again and again on one border            *)
(*   SpecLimits  _calculate_token_limits and _check_notifications as       *)
(*               _process_active_session_data calls them, cycle by cycle   *)
(*   SpecMonitor pacman/cli/main.py, _run_monitoring: start, data updates  *)
(*               with the auto-compact trigger, keypresses, stop           *)
(*   SpecFrames  the frames create_screen_renderable builds around the     *)
(*               shared border and the frames the live display draws       *)
(*                                                                         *)
(* Minutes, rates and projected instants are exact rationals <<n, d>> with *)
(* d > 0; the rounding of float arithmetic and of timedelta to whole       *)
(* microseconds is not modelled.  Instants are seconds on the UTC scale.   *)
(*                                                                         *)
(* Percentages are the value usage_pct the code computes from              *)
(* (tokens_used / token_limit) * 100; they are kept as fractions           *)
(* <<numerator, denominator>> with a positive denominator and compared by  *)
(* cross-multiplication, so no percentage is rounded to an integer.        *)
(* Python's None is NoRung for a returned rung.                            *)
(***************************************************************************)
EXTENDS Integers, Sequences, FiniteSets, TLC

(***************************************************************************)
(* Bounds and input domains                                                *)
(***************************************************************************)
\* number of check_and_alert calls explored from a fresh ThresholdAlert
MaxCalls == 4

\* tokens_used / token_limit arguments of check_and_alert
TokenInputs == {10, 45, 55, 80, 190}
LimitInputs == {-100, 0, 100, 200}

(***************************************************************************)
(* State                                                                   *)
(***************************************************************************)
VARIABLES
    alerted_thresholds,   \* ThresholdAlert._alerted_thresholds
    last_usage_pct,       \* ThresholdAlert._last_usage_pct (fraction)
    ret,                  \* value returned by the last check_and_alert
    calls,                \* history: the calls made so far, with their results
    notif_states,         \* NotificationManager: per key, notified or not
    notifications,        \* dict returned by the last _check_notifications
    conds,                \* the three conditions of the last cycle
    prev_conds,           \* the three conditions of the cycle before it
    marked,               \* keys mark_notified was called for in the last cycle
    action_state,         \* the global ActionState: current_action, dismissed_actions
    launched,             \* launches attempted by the last handle_keypress
    key_result,           \* value returned by the last handle_keypress
    hist,                 \* history: the last HistLen handlers that ran
    rpc,                  \* render thread: position in the guidance step
    r_guidance,           \* render thread: local guidance
    r_show,               \* render thread: local show_action
    kpc,                  \* keyboard thread: position in handle_keypress
    k_action,             \* keyboard thread: local action
    g_args,               \* arguments of the get_primary_guidance call
    g_result,             \* Guidance returned by get_primary_guidance
    g_task,               \* the task type detect_task_type gave to the call
    gpc,                  \* "call" before get_primary_guidance ran, "done" after
    c_args,               \* the active block, the clock readings and the cost ceiling inputs
    time_data,            \* result of calculate_time_data
    cost_data,            \* result of calculate_cost_predictions
    shown,                \* what the display component was handed
    cpc,                  \* "update" before create_data_display ran, then the way it ended
    border,               \* the PacManBorder (the shared _pacman_border)
    b_trace,              \* position and mouth of the border, initially and after each advance()
    f_env,                \* sys.stdout.isatty() now, and args.no_motion
    frames,               \* the frames built and the frames drawn so far
    live_frame,           \* the renderable the live display holds
    b_moves,              \* calls of advance() that moved the position
    mpc,                  \* where _run_monitoring is: "start", "loop", "exited"
    mon,                  \* orchestrator, live display, terminal, args.auto_compact, how it ended
    m_now,                \* time.time()
    last_compact_time,    \* last_compact_time of _run_monitoring
    m_attempts,           \* the launches the auto-trigger attempted
    m_count,              \* handlers run, errors caught, handlers run after an error, accepts
    l_args,               \* args.plan, args.custom_limit_tokens and the token limit of the cycle
    l_limits,             \* token_limit and original_limit as passed to _check_notifications
    prompted,             \* the command whose Y/N prompt is in the frame the live display was handed last
    k_seen                \* that command when the key being handled was pressed

alertVars == <<alerted_thresholds, last_usage_pct, ret, calls>>

notifVars == <<notif_states, notifications, conds, prev_conds, marked>>

actionVars == <<action_state, launched, key_result, hist>>

threadVars == <<rpc, r_guidance, r_show, kpc, k_action>>

guideVars == <<g_args, g_result, g_task, gpc>>

calcVars == <<c_args, time_data, cost_data, shown, cpc>>

borderVars == <<border, b_trace>>

frameVars == <<f_env, frames, live_frame, b_moves>>

monVars == <<mpc, mon, m_now, last_compact_time, m_attempts, m_count>>

limitVars == <<l_args, l_limits>>

promptVars == <<prompted, k_seen>>

vars == <<alerted_thresholds, last_usage_pct, ret, calls,
          notif_states, notifications, conds, prev_conds, marked,
          action_state, launched, key_result, hist,
          rpc, r_guidance, r_show, kpc, k_action,
          g_args, g_result, g_task, gpc,
          c_args, time_data, cost_data, shown, cpc,
          border, b_trace, f_env, frames, live_frame, b_moves,
          mpc, mon, m_now, last_compact_time, m_attempts, m_count,
          l_args, l_limits, prompted, k_seen>>

(***************************************************************************)
(* ThresholdAlert (pacman/monitoring/threshold_alert.py)                   *)
(***************************************************************************)
THRESHOLDS == <<50, 75, 90>>

\* check_and_alert returns None
NoRung == 0

\* usage_pct = (tokens_used / token_limit) * 100, for token_limit > 0
UsagePct(tokens_used, token_limit) == <<tokens_used * 100, token_limit>>

\* the zero that __init__ and reset() store in _last_usage_pct
ZeroPct == <<0, 1>>

DroppedBelow_strict5(usage_pct, last) ==
    usage_pct[1] * last[2] < (last[1] - 5 * last[2]) * usage_pct[2]

DroppedBelow_orEqual(usage_pct, last) ==
    usage_pct[1] * last[2] <= (last[1] - 10 * last[2]) * usage_pct[2]

\* usage_pct < self._last_usage_pct - 10
DroppedBelow(usage_pct, last) ==
    usage_pct[1] * last[2] < (last[1] - 10 * last[2]) * usage_pct[2]

\* usage_pct >= threshold
AtOrAbove(usage_pct, threshold) == usage_pct[1] >= threshold * usage_pct[2]

LimitUsable_zeroOnly(token_limit) == token_limit # 0

LimitUsable_always(token_limit) == TRUE

\* the negation of the early return "if token_limit <= 0: return None"
LimitUsable(token_limit) == ~(token_limit <= 0)

RECURSIVE ScanThresholds(_, _, _)
\* the for loop over THRESHOLDS from index i on: the first threshold that is
\* reached and not yet alerted, or None when the loop runs out
ScanThresholds(i, usage_pct, al) ==
    IF i > Len(THRESHOLDS) THEN NoRung
    ELSE IF AtOrAbove(usage_pct, THRESHOLDS[i]) /\ THRESHOLDS[i] \notin al
         THEN THRESHOLDS[i]
         ELSE ScanThresholds(i + 1, usage_pct, al)

RECURSIVE ScanThresholdsDown(_, _, _)
ScanThresholdsDown(i, usage_pct, al) ==
    IF i < 1 THEN NoRung
    ELSE IF AtOrAbove(usage_pct, THRESHOLDS[i]) /\ THRESHOLDS[i] \notin al
         THEN THRESHOLDS[i]
         ELSE ScanThresholdsDown(i - 1, usage_pct, al)

FirstUnalerted_highest(usage_pct, al) ==
    ScanThresholdsDown(Len(THRESHOLDS), usage_pct, al)

FirstUnalerted_ignoreAlerted(usage_pct, al) == ScanThresholds(1, usage_pct, {})

\* the threshold the loop of check_and_alert stops at
FirstUnalerted(usage_pct, al) == ScanThresholds(1, usage_pct, al)

AfterDropCheck_never(usage_pct, last, al) == al

\* "if usage_pct < self._last_usage_pct - 10: self.reset()": the alerted set
\* the loop then works on
AfterDropCheck(usage_pct, last, al) ==
    IF DroppedBelow(usage_pct, last) THEN {} ELSE al

\* ThresholdAlert.check_and_alert(tokens_used, token_limit)
check_and_alert(tokens_used, token_limit) ==
    /\ Len(calls) < MaxCalls
    /\ IF ~LimitUsable(token_limit)
       THEN /\ ret' = NoRung
            /\ UNCHANGED <<alerted_thresholds, last_usage_pct>>
       ELSE LET usage_pct == UsagePct(tokens_used, token_limit)
                al        == AfterDropCheck(usage_pct, last_usage_pct,
                                            alerted_thresholds)
                threshold == FirstUnalerted(usage_pct, al)
            IN  /\ last_usage_pct' = usage_pct
                /\ alerted_thresholds' =
                       IF threshold = NoRung THEN al ELSE al \cup {threshold}
                /\ ret' = threshold
    /\ calls' = Append(calls, [used |-> tokens_used, limit |-> token_limit,
                               ret |-> ret'])
    /\ UNCHANGED <<notifVars, actionVars, threadVars, guideVars, calcVars, borderVars, frameVars, monVars, limitVars, promptVars>>

(***************************************************************************)
(* Notifications (claude_monitor/ui/display_controller.py)                 *)
(***************************************************************************)
\* values of the six arguments of _check_notifications (limits, costs and
\* instants on a small scale)
NotifInputs == 0..2

NotifKeys == {"switch_to_custom", "exceed_max_limit", "cost_will_exceed"}

\* NotificationManager.should_notify(key): the latch of key is armed
should_notify(states, key) == ~states[key]

\* NotificationManager.is_notification_active(key): the latch of key has fired
is_notification_active(states, key) == states[key]

\* NotificationManager.mark_notified(key): the latch of key fires
mark_notified(states, key) == [states EXCEPT ![key] = TRUE]

\* the three conditions _check_notifications computes from its arguments
Conditions(token_limit, original_limit, session_cost, cost_limit, predicted_end_time, reset_time) ==
    [k \in NotifKeys |->
        CASE k = "switch_to_custom" -> token_limit > original_limit
          [] k = "exceed_max_limit" -> session_cost > cost_limit
          [] k = "cost_will_exceed" -> predicted_end_time < reset_time]

\* one "if condition and should_notify(key): mark_notified(key)" test
Marks(states, key, condition) == condition /\ should_notify(states, key)

ShowFlag_latched(states, key, condition) ==
    IF Marks(states, key, condition) THEN TRUE
    ELSE is_notification_active(states, key)

\* the show flag one if/else block of _check_notifications stores
ShowFlag(states, key, condition) ==
    IF Marks(states, key, condition) THEN TRUE
    ELSE condition /\ is_notification_active(states, key)

\* DisplayController._check_notifications: the three blocks use three
\* different keys, so each reads and writes its own entry only; the limits
\* _process_active_session_data keeps are left to the caller
check_notifications(token_limit, original_limit, session_cost, cost_limit, predicted_end_time, reset_time) ==
    LET c == Conditions(token_limit, original_limit, session_cost, cost_limit,
                        predicted_end_time, reset_time)
    IN  /\ notifications' = [k \in NotifKeys |-> ShowFlag(notif_states, k, c[k])]
        /\ notif_states' =
               [k \in NotifKeys |->
                   IF Marks(notif_states, k, c[k])
                   THEN mark_notified(notif_states, k)[k]
                   ELSE notif_states[k]]
        /\ marked' = {k \in NotifKeys : Marks(notif_states, k, c[k])}
        /\ conds' = c
        /\ prev_conds' = conds
        /\ UNCHANGED <<alertVars, actionVars, threadVars, guideVars, calcVars, borderVars, frameVars, monVars, promptVars>>

(***************************************************************************)
(* ActionState and handle_keypress (pacman/terminal/input_handler.py),     *)
(* guidance step of SimpleDisplayComponent.render                          *)
(***************************************************************************)
\* Python's None for a command, a prompt or a returned message
None == "None"

\* number of past handlers the history keeps
HistLen == 3

\* keys poll_keyboard can deliver (lower-cased)
KeyInputs == {"y", "n", "q"}

\* the action fields of the Guidance values get_primary_guidance builds
GuidanceInputs ==
    { [action_prompt |-> "Run /compact?", interactive |-> TRUE,
       action_command |-> "compact"],
      [action_prompt |-> "Switch to Sonnet?", interactive |-> TRUE,
       action_command |-> "model sonnet"],
      [action_prompt |-> None, interactive |-> FALSE,
       action_command |-> None] }

\* ActionState.set_action
set_action(st, action) == [st EXCEPT !.current_action = action]

dismiss_current_forget(st) ==
    IF st.current_action # None THEN [st EXCEPT !.current_action = None] ELSE st

dismiss_current_keep(st) ==
    IF st.current_action # None
    THEN [st EXCEPT !.dismissed_actions = @ \cup {st.current_action}]
    ELSE st

\* ActionState.dismiss_current
dismiss_current(st) ==
    IF st.current_action # None
    THEN [current_action |-> None,
          dismissed_actions |-> st.dismissed_actions \cup {st.current_action}]
    ELSE st

\* ActionState.is_dismissed
is_dismissed(st, action) == action \in st.dismissed_actions

clear_action_undismiss(st) == [current_action |-> None, dismissed_actions |-> {}]

\* ActionState.clear_action
clear_action(st) == [st EXCEPT !.current_action = None]

ShowAction_ignoreDismissed(guidance, st) ==
    /\ guidance.action_prompt # None
    /\ guidance.interactive
    /\ guidance.action_command # None

\* show_action of SimpleDisplayComponent.render
ShowAction(guidance, st) ==
    /\ guidance.action_prompt # None
    /\ guidance.interactive
    /\ guidance.action_command # None
    /\ ~is_dismissed(st, guidance.action_command)

\* the history with one more handler, cut to the last HistLen
Remember(entry) ==
    LET h == Append(hist, entry)
    IN  IF Len(h) > HistLen THEN Tail(h) ELSE h

RenderGuidance_keepPending(guidance) ==
    /\ action_state' =
           IF ShowAction(guidance, action_state)
           THEN set_action(action_state, guidance.action_command)
           ELSE action_state
    /\ hist' = Remember([op |-> "render", arg |-> guidance.action_command,
                         pending |-> action_state.current_action])
    /\ prompted' = IF ShowAction(guidance, action_state) THEN guidance.action_command ELSE None
    /\ UNCHANGED <<launched, key_result, k_seen>>
    /\ UNCHANGED <<calcVars, borderVars, frameVars, monVars, limitVars, guideVars, alertVars, notifVars, threadVars>>

\* the guidance step of SimpleDisplayComponent.render: set_action when the
\* prompt is shown, clear_action otherwise
RenderGuidance(guidance) ==
    /\ action_state' =
           IF ShowAction(guidance, action_state)
           THEN set_action(action_state, guidance.action_command)
           ELSE clear_action(action_state)
    /\ hist' = Remember([op |-> "render", arg |-> guidance.action_command,
                         pending |-> action_state.current_action])
    /\ prompted' = IF ShowAction(guidance, action_state) THEN guidance.action_command ELSE None
    /\ UNCHANGED <<launched, key_result, k_seen>>
    /\ UNCHANGED <<calcVars, borderVars, frameVars, monVars, limitVars, guideVars, alertVars, notifVars, threadVars>>

\* the guidance section of the session display,
\* SessionDisplayComponent._render_guidance_section: the prompt is put into
\* the frame for every interactive guidance with a prompt; ActionState is
\* neither read nor written
RenderSessionGuidance(guidance) ==
    /\ prompted' = IF guidance.action_prompt # None /\ guidance.interactive THEN guidance.action_command ELSE None
    /\ hist' = Remember([op |-> "session_render", arg |-> guidance.action_command,
                         pending |-> action_state.current_action])
    /\ UNCHANGED <<action_state, launched, key_result, k_seen>>
    /\ UNCHANGED <<calcVars, borderVars, frameVars, monVars, limitVars, guideVars, alertVars, notifVars, threadVars>>

\* execute_action: the launches it attempts; popen_ok is whether
\* subprocess.Popen returned or raised
LaunchesOf(action, popen_ok) ==
    IF action = None THEN <<>> ELSE <<[cmd |-> action, ok |-> popen_ok]>>

execute_action_ignoreFailure(action, popen_ok) == action # None

\* execute_action: its return value
execute_action(action, popen_ok) == action # None /\ popen_ok

handle_keypress_otherKeyClears(key, popen_ok) ==
    /\ IF action_state.current_action = None
       THEN /\ key_result' = None
            /\ launched' = <<>>
            /\ UNCHANGED action_state
       ELSE IF key = "y"
       THEN LET action == action_state.current_action
            IN  /\ launched' = LaunchesOf(action, popen_ok)
                /\ IF execute_action(action, popen_ok)
                   THEN /\ action_state' = clear_action(action_state)
                        /\ key_result' = "Executed"
                   ELSE /\ UNCHANGED action_state
                        /\ key_result' = "Failed to execute"
       ELSE IF key = "n"
       THEN /\ action_state' = dismiss_current(action_state)
            /\ key_result' = "Dismissed suggestion"
            /\ launched' = <<>>
       ELSE /\ key_result' = None
            /\ launched' = <<>>
            /\ action_state' = clear_action(action_state)
    /\ hist' = Remember([op |-> "key", arg |-> key,
                         pending |-> action_state.current_action])
    /\ k_seen' = prompted
    /\ UNCHANGED prompted
    /\ UNCHANGED <<calcVars, borderVars, frameVars, guideVars, alertVars, notifVars, threadVars, limitVars>>

\* handle_keypress(key); what _run_monitoring keeps is left to the caller
handle_keypress(key, popen_ok) ==
    /\ IF action_state.current_action = None
       THEN /\ key_result' = None
            /\ launched' = <<>>
            /\ UNCHANGED action_state
       ELSE IF key = "y"
       THEN LET action == action_state.current_action
            IN  /\ launched' = LaunchesOf(action, popen_ok)
                /\ IF execute_action(action, popen_ok)
                   THEN /\ action_state' = clear_action(action_state)
                        /\ key_result' = "Executed"
                   ELSE /\ UNCHANGED action_state
                        /\ key_result' = "Failed to execute"
       ELSE IF key = "n"
       THEN /\ action_state' = dismiss_current(action_state)
            /\ key_result' = "Dismissed suggestion"
            /\ launched' = <<>>
       ELSE /\ key_result' = None
            /\ launched' = <<>>
            /\ UNCHANGED action_state
    /\ hist' = Remember([op |-> "key", arg |-> key,
                         pending |-> action_state.current_action])
    /\ k_seen' = prompted
    /\ UNCHANGED prompted
    /\ UNCHANGED <<calcVars, borderVars, frameVars, guideVars, alertVars, notifVars, threadVars, limitVars>>

(***************************************************************************)
(* The same handlers as two threads.  on_data_update (pacman/cli/main.py)  *)
(* runs render on the orchestrator's thread while the main thread polls    *)
(* the keyboard; ActionState has no lock, so the threads interleave        *)
(* between any two accesses of the shared object.                          *)
(***************************************************************************)
\* render thread, simple_display.py 321-327: show_action is computed, which
\* reads dismissed_actions
R_check(guidance) ==
    /\ rpc = "idle"
    /\ r_guidance' = guidance
    /\ r_show' = ShowAction(guidance, action_state)
    /\ rpc' = "checked"
    /\ UNCHANGED <<kpc, k_action>>
    /\ UNCHANGED <<calcVars, borderVars, frameVars, monVars, limitVars, promptVars, guideVars, alertVars, notifVars, actionVars>>

\* render thread, simple_display.py 329-341: set_action or clear_action
R_apply ==
    /\ rpc = "checked"
    /\ action_state' =
           IF r_show THEN set_action(action_state, r_guidance.action_command)
           ELSE clear_action(action_state)
    /\ rpc' = "applied"
    /\ UNCHANGED <<r_guidance, r_show, kpc, k_action>>
    /\ UNCHANGED <<calcVars, borderVars, frameVars, monVars, limitVars, promptVars, guideVars, alertVars, notifVars, launched, key_result, hist>>

\* render thread, main.py 230-235: render has returned, on_data_update hands
\* the frame to the live display
R_publish ==
    /\ rpc = "applied"
    /\ prompted' = IF r_show THEN r_guidance.action_command ELSE None
    /\ rpc' = "idle"
    /\ UNCHANGED <<r_guidance, r_show, kpc, k_action, k_seen>>
    /\ UNCHANGED <<calcVars, borderVars, frameVars, monVars, limitVars, guideVars, alertVars, notifVars, actionVars>>

\* keyboard thread, input_handler.py 125-128, 136: the test of
\* state.current_action and the dispatch on the key
K_start(key) ==
    /\ kpc = "idle"
    /\ launched' = <<>>
    /\ k_seen' = prompted
    /\ UNCHANGED prompted
    /\ IF action_state.current_action = None \/ key \notin {"y", "n"}
       THEN key_result' = None /\ kpc' = "idle"
       ELSE UNCHANGED key_result /\ kpc' = IF key = "y" THEN "y_read" ELSE "n_test"
    /\ UNCHANGED <<rpc, r_guidance, r_show, k_action>>
    /\ UNCHANGED <<calcVars, borderVars, frameVars, monVars, limitVars, guideVars, alertVars, notifVars, action_state, hist>>

\* keyboard thread, input_handler.py 129: action = state.current_action
K_y_read ==
    /\ kpc = "y_read"
    /\ k_action' = action_state.current_action
    /\ kpc' = "y_exec"
    /\ UNCHANGED <<rpc, r_guidance, r_show>>
    /\ UNCHANGED <<calcVars, borderVars, frameVars, monVars, limitVars, promptVars, guideVars, alertVars, notifVars, actionVars>>

\* keyboard thread, input_handler.py 130-134: execute_action(action) and the
\* branch on its result
K_y_exec(popen_ok) ==
    /\ kpc = "y_exec"
    /\ launched' = LaunchesOf(k_action, popen_ok)
    /\ IF execute_action(k_action, popen_ok)
       THEN UNCHANGED key_result /\ kpc' = "y_clear"
       ELSE key_result' = "Failed to execute" /\ kpc' = "idle"
    /\ UNCHANGED <<rpc, r_guidance, r_show, k_action>>
    /\ UNCHANGED <<calcVars, borderVars, frameVars, monVars, limitVars, promptVars, guideVars, alertVars, notifVars, action_state, hist>>

\* keyboard thread, input_handler.py 131-132: state.clear_action()
K_y_clear ==
    /\ kpc = "y_clear"
    /\ action_state' = clear_action(action_state)
    /\ key_result' = "Executed"
    /\ kpc' = "idle"
    /\ UNCHANGED <<rpc, r_guidance, r_show, k_action>>
    /\ UNCHANGED <<calcVars, borderVars, frameVars, monVars, limitVars, promptVars, guideVars, alertVars, notifVars, launched, hist>>

\* keyboard thread, input_handler.py 137-138 and 37: action is read, and
\* dismiss_current tests self.current_action
K_n_test ==
    /\ kpc = "n_test"
    /\ k_action' = action_state.current_action
    /\ IF action_state.current_action # None
       THEN UNCHANGED key_result /\ kpc' = "n_add"
       ELSE key_result' = "Dismissed suggestion" /\ kpc' = "idle"
    /\ UNCHANGED <<rpc, r_guidance, r_show>>
    /\ UNCHANGED <<calcVars, borderVars, frameVars, monVars, limitVars, promptVars, guideVars, alertVars, notifVars, action_state, launched, hist>>

\* keyboard thread, input_handler.py 38:
\* self.dismissed_actions.add(self.current_action), with the value
\* current_action has at that moment
K_n_add ==
    /\ kpc = "n_add"
    /\ action_state' = [action_state EXCEPT
                           !.dismissed_actions = @ \cup {action_state.current_action}]
    /\ kpc' = "n_clear"
    /\ UNCHANGED <<rpc, r_guidance, r_show, k_action>>
    /\ UNCHANGED <<calcVars, borderVars, frameVars, monVars, limitVars, promptVars, guideVars, alertVars, notifVars, launched, key_result, hist>>

\* keyboard thread, input_handler.py 39 and 139: self.current_action = None
K_n_clear ==
    /\ kpc = "n_clear"
    /\ action_state' = [action_state EXCEPT !.current_action = None]
    /\ key_result' = "Dismissed suggestion"
    /\ kpc' = "idle"
    /\ UNCHANGED <<rpc, r_guidance, r_show, k_action>>
    /\ UNCHANGED <<calcVars, borderVars, frameVars, monVars, limitVars, promptVars, guideVars, alertVars, notifVars, launched, hist>>

(***************************************************************************)
(* Guidance engine (pacman/ui/guidance.py)                                 *)
(*                                                                         *)
(* A text is a tuple of one-character strings.  The recent messages are    *)
(* kept as what detect_task_type reads off them: whether the list is       *)
(* empty, how many of the CODING_KEYWORDS and of the PLANNING_KEYWORDS      *)
(* occur in the joined, lower-cased text, and which markers occur in it.   *)
(***************************************************************************)
UpperLetters == <<"A", "B", "C", "D", "E", "F", "G", "H", "I", "J", "K", "L", "M", "N", "O", "P", "Q", "R", "S", "T", "U", "V", "W", "X", "Y", "Z">>

LowerLetters == <<"a", "b", "c", "d", "e", "f", "g", "h", "i", "j", "k", "l", "m", "n", "o", "p", "q", "r", "s", "t", "u", "v", "w", "x", "y", "z">>

\* str.lower() on one character
LowerChar(c) ==
    IF \E i \in 1..Len(UpperLetters) : UpperLetters[i] = c
    THEN LowerLetters[CHOOSE i \in 1..Len(UpperLetters) : UpperLetters[i] = c]
    ELSE c

\* str.lower()
Lower(text) == [i \in 1..Len(text) |-> LowerChar(text[i])]

\* "needle in text"
Contains(text, needle) ==
    \E i \in 0..(Len(text) - Len(needle)) :
        \A j \in 1..Len(needle) : text[i + j] = needle[j]

OpusWord == <<"o", "p", "u", "s">>

\* dict.get(key, default)
DictGet(dict, key, default) == IF key \in DOMAIN dict THEN dict[key] ELSE default

\* usage_percentage arguments
UsageInputs == {0, 49, 50, 55, 69, 70, 74, 75, 89, 90, 95, 120}

\* burn_rate arguments
RateInputs == {5, 100, 101, 150, 151}

\* model_distribution arguments: no entry at all, no "opus" entry, and opus
\* shares around the two tests on opus_pct
DistInputs ==
    {[k \in {} |-> 0], [k \in {"sonnet"} |-> 100]}
        \cup {[k \in {"opus", "sonnet"} |-> IF k = "opus" THEN share ELSE 100 - share] : share \in {40, 41, 60, 61, 70}}

\* minutes_to_reset arguments
MinutesInputs == {-5, 0, 45, 150}

\* current_model arguments
ModelInputs ==
    { <<"o", "p", "u", "s">>,
      <<"C", "l", "a", "u", "d", "e", "-", "O", "p", "u", "s", "-", "4">>,
      <<"s", "o", "n", "n", "e", "t">>,
      <<"h", "a", "i", "k", "u">> }

\* recent_messages arguments: None or an empty list, and texts with the given
\* numbers of keyword hits and markers
MessageInputs ==
    { [empty |-> TRUE, coding_hits |-> 0, planning_hits |-> 0, has_suffix |-> FALSE, has_fence |-> FALSE, has_slash |-> FALSE, has_src_or_lib |-> FALSE],
      [empty |-> FALSE, coding_hits |-> 0, planning_hits |-> 0, has_suffix |-> FALSE, has_fence |-> FALSE, has_slash |-> FALSE, has_src_or_lib |-> FALSE],
      [empty |-> FALSE, coding_hits |-> 0, planning_hits |-> 2, has_suffix |-> FALSE, has_fence |-> FALSE, has_slash |-> FALSE, has_src_or_lib |-> FALSE],
      [empty |-> FALSE, coding_hits |-> 1, planning_hits |-> 2, has_suffix |-> FALSE, has_fence |-> FALSE, has_slash |-> TRUE, has_src_or_lib |-> FALSE],
      [empty |-> FALSE, coding_hits |-> 3, planning_hits |-> 1, has_suffix |-> FALSE, has_fence |-> FALSE, has_slash |-> FALSE, has_src_or_lib |-> FALSE],
      [empty |-> FALSE, coding_hits |-> 0, planning_hits |-> 0, has_suffix |-> FALSE, has_fence |-> TRUE, has_slash |-> FALSE, has_src_or_lib |-> FALSE],
      [empty |-> FALSE, coding_hits |-> 0, planning_hits |-> 2, has_suffix |-> TRUE, has_fence |-> FALSE, has_slash |-> TRUE, has_src_or_lib |-> TRUE] }

\* TaskType
CODING == "CODING"

PLANNING == "PLANNING"

UNKNOWN == "UNKNOWN"

\* coding_score after the three marker tests of detect_task_type
CodingScore(recent_messages) ==
    recent_messages.coding_hits
        + (IF recent_messages.has_suffix THEN 2 ELSE 0)
        + (IF recent_messages.has_fence THEN 2 ELSE 0)
        + (IF recent_messages.has_slash /\ recent_messages.has_src_or_lib THEN 1 ELSE 0)

detect_task_type_anyLead(recent_messages) ==
    IF recent_messages.empty THEN UNKNOWN
    ELSE LET coding_score   == CodingScore(recent_messages)
             planning_score == recent_messages.planning_hits
         IN  IF coding_score > planning_score THEN CODING
             ELSE IF planning_score > coding_score THEN PLANNING
             ELSE UNKNOWN

\* detect_task_type
detect_task_type(recent_messages) ==
    IF recent_messages.empty THEN UNKNOWN
    ELSE LET coding_score   == CodingScore(recent_messages)
             planning_score == recent_messages.planning_hits
         IN  IF coding_score > planning_score + 1 THEN CODING
             ELSE IF planning_score > coding_score + 1 THEN PLANNING
             ELSE UNKNOWN

\* the string _format_time returns: "< 1m", "{hours}h {mins}m" or "{mins}m"
format_time(minutes) ==
    IF minutes < 1 THEN [form |-> "< 1m", hours |-> 0, mins |-> 0]
    ELSE IF minutes \div 60 > 0
         THEN [form |-> "h m", hours |-> minutes \div 60, mins |-> minutes % 60]
         ELSE [form |-> "m", hours |-> 0, mins |-> minutes % 60]

\* the parts of a primary text that no f-string fills in
NoNumber == <<>>

NoTimeStr == [form |-> "", hours |-> 0, mins |-> 0]

\* Guidance(...) with the defaults of the dataclass; primary is the text with
\* the number and the time string an f-string puts into it
Guidance(text, number, time_str, context, urgency, interactive, suggested_model, action_prompt, action_command) ==
    [primary |-> [text |-> text, number |-> number, time_str |-> time_str],
     context |-> context,
     urgency |-> urgency,
     interactive |-> interactive,
     suggested_model |-> suggested_model,
     action_prompt |-> action_prompt,
     action_command |-> action_command]

\* the Guidance the i-th return statement of get_primary_guidance builds
GuidanceOf(i, usage_percentage, opus_pct, time_str) ==
    CASE i = 1 -> Guidance("You're almost at your limit. Focus on finishing your current task.", NoNumber, NoTimeStr, None, "urgent", TRUE, None, "Run /compact?", "compact")
      [] i = 2 -> Guidance("Using tokens quickly at {usage}%. Consider wrapping up.", <<usage_percentage>>, NoTimeStr, None, "urgent", TRUE, None, "Run /compact?", "compact")
      [] i = 3 -> Guidance("You're using Opus for planning/questions.", NoNumber, NoTimeStr, "Sonnet handles research and planning well at lower cost.", "normal", TRUE, "sonnet", "Switch to Sonnet?", "model sonnet")
      [] i = 4 -> Guidance("This looks like a coding task.", NoNumber, NoTimeStr, "Opus excels at complex implementation work.", "normal", TRUE, "opus", "Switch to Opus?", "model opus")
      [] i = 5 -> Guidance("Opus is handling {opus_pct}% of your work. Sonnet is often sufficient and more economical.", <<opus_pct>>, NoTimeStr, None, "normal", TRUE, None, "Switch to Sonnet?", "model sonnet")
      [] i = 6 -> Guidance("Running low on tokens. Resets in {time_str}.", NoNumber, time_str, None, "normal", TRUE, None, "Run /compact?", "compact")
      [] i = 7 -> Guidance("High token velocity. Normal if you're in a complex task.", NoNumber, NoTimeStr, None, "calm", FALSE, None, None, None)
      [] i = 8 -> Guidance("Halfway through your window. You're pacing well.", NoNumber, NoTimeStr, None, "calm", FALSE, None, None, None)
      [] OTHER -> Guidance("You're in good shape.", NoNumber, NoTimeStr, None, "calm", FALSE, None, None, None)

\* mutant: the first test is usage_percentage > 90
FirstMatch_above90(usage_percentage, burn_rate, opus_pct, task_type, current_model_lower) ==
    IF usage_percentage > 90 THEN 1
    ELSE IF burn_rate > 100 /\ usage_percentage >= 70 THEN 2
    ELSE IF task_type = PLANNING /\ Contains(current_model_lower, OpusWord) /\ opus_pct > 40 THEN 3
    ELSE IF task_type = CODING /\ ~Contains(current_model_lower, OpusWord) /\ usage_percentage < 70 THEN 4
    ELSE IF opus_pct > 60 /\ usage_percentage >= 50 THEN 5
    ELSE IF usage_percentage >= 75 THEN 6
    ELSE IF burn_rate > 150 THEN 7
    ELSE IF usage_percentage >= 50 THEN 8
    ELSE 9

\* mutant: the usage >= 75 test comes before the opus share test
FirstMatch_lowBeforeShare(usage_percentage, burn_rate, opus_pct, task_type, current_model_lower) ==
    IF usage_percentage >= 90 THEN 1
    ELSE IF burn_rate > 100 /\ usage_percentage >= 70 THEN 2
    ELSE IF task_type = PLANNING /\ Contains(current_model_lower, OpusWord) /\ opus_pct > 40 THEN 3
    ELSE IF task_type = CODING /\ ~Contains(current_model_lower, OpusWord) /\ usage_percentage < 70 THEN 4
    ELSE IF usage_percentage >= 75 THEN 6
    ELSE IF opus_pct > 60 /\ usage_percentage >= 50 THEN 5
    ELSE IF burn_rate > 150 THEN 7
    ELSE IF usage_percentage >= 50 THEN 8
    ELSE 9

\* mutant: the usage >= 50 test comes before the burn_rate > 150 test
FirstMatch_halfwayFirst(usage_percentage, burn_rate, opus_pct, task_type, current_model_lower) ==
    IF usage_percentage >= 90 THEN 1
    ELSE IF burn_rate > 100 /\ usage_percentage >= 70 THEN 2
    ELSE IF task_type = PLANNING /\ Contains(current_model_lower, OpusWord) /\ opus_pct > 40 THEN 3
    ELSE IF task_type = CODING /\ ~Contains(current_model_lower, OpusWord) /\ usage_percentage < 70 THEN 4
    ELSE IF opus_pct > 60 /\ usage_percentage >= 50 THEN 5
    ELSE IF usage_percentage >= 75 THEN 6
    ELSE IF usage_percentage >= 50 THEN 8
    ELSE IF burn_rate > 150 THEN 7
    ELSE 9

\* mutant: the opus share test comes before the two task type tests
FirstMatch_shareBeforeIntent(usage_percentage, burn_rate, opus_pct, task_type, current_model_lower) ==
    IF usage_percentage >= 90 THEN 1
    ELSE IF burn_rate > 100 /\ usage_percentage >= 70 THEN 2
    ELSE IF opus_pct > 60 /\ usage_percentage >= 50 THEN 5
    ELSE IF task_type = PLANNING /\ Contains(current_model_lower, OpusWord) /\ opus_pct > 40 THEN 3
    ELSE IF task_type = CODING /\ ~Contains(current_model_lower, OpusWord) /\ usage_percentage < 70 THEN 4
    ELSE IF usage_percentage >= 75 THEN 6
    ELSE IF burn_rate > 150 THEN 7
    ELSE IF usage_percentage >= 50 THEN 8
    ELSE 9

\* the tests of get_primary_guidance in the order of its if statements: the
\* number of the first return statement that is reached
FirstMatch(usage_percentage, burn_rate, opus_pct, task_type, current_model_lower) ==
    IF usage_percentage >= 90 THEN 1
    ELSE IF burn_rate > 100 /\ usage_percentage >= 70 THEN 2
    ELSE IF task_type = PLANNING /\ Contains(current_model_lower, OpusWord) /\ opus_pct > 40 THEN 3
    ELSE IF task_type = CODING /\ ~Contains(current_model_lower, OpusWord) /\ usage_percentage < 70 THEN 4
    ELSE IF opus_pct > 60 /\ usage_percentage >= 50 THEN 5
    ELSE IF usage_percentage >= 75 THEN 6
    ELSE IF burn_rate > 150 THEN 7
    ELSE IF usage_percentage >= 50 THEN 8
    ELSE 9

\* get_primary_guidance
get_primary_guidance(usage_percentage, burn_rate, model_distribution, minutes_to_reset, current_model, recent_messages) ==
    LET opus_pct  == DictGet(model_distribution, "opus", 0)
        time_str  == format_time(minutes_to_reset)
        task_type == detect_task_type(recent_messages)
    IN  GuidanceOf(FirstMatch(usage_percentage, burn_rate, opus_pct, task_type, Lower(current_model)),
                   usage_percentage, opus_pct, time_str)

\* one call of get_primary_guidance on the arguments drawn initially
CallGuidance ==
    /\ gpc = "call"
    /\ g_result' = get_primary_guidance(g_args.usage_percentage, g_args.burn_rate, g_args.model_distribution, g_args.minutes_to_reset, g_args.current_model, g_args.recent_messages)
    /\ g_task' = detect_task_type(g_args.recent_messages)
    /\ gpc' = "done"
    /\ UNCHANGED g_args
    /\ UNCHANGED <<alertVars, notifVars, actionVars, threadVars, calcVars, borderVars, frameVars, monVars, limitVars, promptVars>>

(***************************************************************************)
(* Time window and cost projection                                        *)
(* (claude_monitor/ui/display_controller.py, SessionCalculator and the two *)
(* display paths of DisplayController.create_data_display)                 *)
(***************************************************************************)
\* exact rational arithmetic on pairs <<n, d>>, d > 0
RatOf(n) == <<n, 1>>

RatLt(a, b) == a[1] * b[2] < b[1] * a[2]

RatEq(a, b) == a[1] * b[2] = b[1] * a[2]

RatSub(a, b) == <<a[1] * b[2] - b[1] * a[2], a[2] * b[2]>>

RatAdd(a, b) == <<a[1] * b[2] + b[1] * a[2], a[2] * b[2]>>

RatMul(a, b) == <<a[1] * b[1], a[2] * b[2]>>

\* a / b for b > 0
RatDiv(a, b) == <<a[1] * b[2], a[2] * b[1]>>

\* max(a, b) of Python: b only when it is greater than a
RatMax(a, b) == IF RatLt(a, b) THEN b ELSE a

\* mutant: the seconds are not divided by 60
MinutesOf_asSeconds(seconds) == <<seconds, 1>>

\* timedelta.total_seconds() / 60
MinutesOf(seconds) == <<seconds, 60>>

\* None for a datetime
NoInstant == -1

\* None for cost_limit and cost_limit_p90
NoLimit == -1

\* the instant the sample windows start at, in seconds
T == 36000

\* the timestamp string of an instant, written with a UTC offset
Stamp(instant, offset) == [kind |-> "iso", local |-> instant + offset, offset |-> offset]

\* a field that is missing (None) or the empty string
NoStamp == [kind |-> "none", local |-> 0, offset |-> 0]

EmptyStamp == [kind |-> "empty", local |-> 0, offset |-> 0]

\* a non-empty string that is no timestamp
BadStamp == [kind |-> "malformed", local |-> 0, offset |-> 0]

\* startTime of the active block
StartInputs == {NoStamp, BadStamp, Stamp(T, 0), Stamp(T, 3600), Stamp(T + 600, -7200)}

\* endTime of the active block
EndInputs == {NoStamp, EmptyStamp, BadStamp, Stamp(T + 18000, 0), Stamp(T + 18000, 3600), Stamp(T + 7200, 0)}

\* the instant create_data_display reads
NowInputs == {T - 300, T, T + 30, T + 9000, T + 18000, T + 18300}

\* seconds until calculate_cost_predictions reads the clock again
DelayInputs == {0, 1}

\* costUSD of the active block
CostInputs == {0, 30, 100, 120}

\* cost_limit_p90
P90Inputs == {NoLimit, 50}

\* what tz_handler.ensure_utc(tz_handler.parse_timestamp(s)) does with a
\* string that is no timestamp: it gives None, or an exception leaves it
BadStampOutcomes == {"none", "raise"}

\* mutant: the empty string counts as a timestamp
Present_notNone(stamp) == stamp.kind # "none"

\* session_data.get(key): truthy for every non-empty string
Present(stamp) == stamp.kind \in {"iso", "malformed"}

\* tz_handler.ensure_utc(tz_handler.parse_timestamp(s)) for a well-formed s
ParseUtc(stamp) == stamp.local - stamp.offset

\* ensure_utc(parse_timestamp(s)) for a non-empty s: the instant, or None for
\* a malformed s when the handler gives None
Parsed(stamp) == IF stamp.kind = "iso" THEN ParseUtc(stamp) ELSE NoInstant

\* an exception leaves calculate_time_data: out of the timestamp handler, or
\* out of reset_time - current_time when reset_time is None
TimeDataRaises(start_time_str, end_time_str, bad_outcome) ==
    \/ start_time_str.kind = "malformed" /\ bad_outcome = "raise"
    \/ end_time_str.kind = "malformed"

\* timedelta(hours=5) in seconds, and 5 * 60 minutes
DefaultSeconds == 5 * 3600

DefaultMinutes == 5 * 60

\* nothing computed yet, and nothing returned
NoTimeData == [raised |-> FALSE, start_time |-> NoInstant, reset_time |-> NoInstant, minutes_to_reset |-> RatOf(0), total_session_minutes |-> RatOf(0), elapsed_session_minutes |-> RatOf(0)]

calculate_time_data_unclamped(start_time_str, end_time_str, current_time, bad_outcome) ==
    IF TimeDataRaises(start_time_str, end_time_str, bad_outcome) THEN [NoTimeData EXCEPT !.raised = TRUE]
    ELSE LET start_time == IF Present(start_time_str) THEN Parsed(start_time_str) ELSE NoInstant
             reset_time == IF Present(end_time_str) THEN Parsed(end_time_str)
                           ELSE IF start_time # NoInstant THEN start_time + DefaultSeconds
                           ELSE current_time + DefaultSeconds
             minutes_to_reset == MinutesOf(reset_time - current_time)
             exact == start_time # NoInstant /\ Present(end_time_str)
             total_session_minutes == IF exact THEN MinutesOf(reset_time - start_time) ELSE RatOf(DefaultMinutes)
         IN  [raised |-> FALSE,
              start_time |-> start_time,
              reset_time |-> reset_time,
              minutes_to_reset |-> minutes_to_reset,
              total_session_minutes |-> total_session_minutes,
              elapsed_session_minutes |->
                  IF exact THEN MinutesOf(current_time - start_time)
                  ELSE RatMax(RatOf(0), RatSub(total_session_minutes, minutes_to_reset))]

\* SessionCalculator.calculate_time_data; bad_outcome is what the timestamp
\* handler does with a malformed string
calculate_time_data(start_time_str, end_time_str, current_time, bad_outcome) ==
    IF TimeDataRaises(start_time_str, end_time_str, bad_outcome) THEN [NoTimeData EXCEPT !.raised = TRUE]
    ELSE LET start_time == IF Present(start_time_str) THEN Parsed(start_time_str) ELSE NoInstant
             reset_time == IF Present(end_time_str) THEN Parsed(end_time_str)
                           ELSE IF start_time # NoInstant THEN start_time + DefaultSeconds
                           ELSE current_time + DefaultSeconds
             minutes_to_reset == MinutesOf(reset_time - current_time)
             exact == start_time # NoInstant /\ Present(end_time_str)
             total_session_minutes == IF exact THEN MinutesOf(reset_time - start_time) ELSE RatOf(DefaultMinutes)
         IN  [raised |-> FALSE,
              start_time |-> start_time,
              reset_time |-> reset_time,
              minutes_to_reset |-> minutes_to_reset,
              total_session_minutes |-> total_session_minutes,
              elapsed_session_minutes |->
                  IF exact THEN RatMax(RatOf(0), MinutesOf(current_time - start_time))
                  ELSE RatMax(RatOf(0), RatSub(total_session_minutes, minutes_to_reset))]

\* the default of cost_limit
DefaultCostLimit == 100

\* mutant: no one-minute floor under the divisor
CostPerMinute_noFloor(session_cost, elapsed_minutes) ==
    IF RatLt(RatOf(0), elapsed_minutes)
    THEN RatDiv(RatOf(session_cost), elapsed_minutes)
    ELSE RatOf(0)

\* session_cost / max(1, elapsed_minutes) if elapsed_minutes > 0 else 0
CostPerMinute(session_cost, elapsed_minutes) ==
    IF RatLt(RatOf(0), elapsed_minutes)
    THEN RatDiv(RatOf(session_cost), RatMax(RatOf(1), elapsed_minutes))
    ELSE RatOf(0)

\* mutant: the projection is made whenever the rate is positive
Projects_rateOnly(cost_per_minute, cost_remaining) == RatLt(RatOf(0), cost_per_minute)

\* mutant: the projection is made whenever capacity is left
Projects_capacityOnly(cost_per_minute, cost_remaining) == cost_remaining > 0

\* cost_per_minute > 0 and cost_remaining > 0
Projects(cost_per_minute, cost_remaining) ==
    RatLt(RatOf(0), cost_per_minute) /\ cost_remaining > 0

\* mutant: the depletion time is added as seconds
DepletionInstant_asSeconds(now, minutes_to_cost_depletion) == RatAdd(RatOf(now), minutes_to_cost_depletion)

\* now + timedelta(minutes=minutes_to_cost_depletion)
DepletionInstant(now, minutes_to_cost_depletion) ==
    RatAdd(RatOf(now), RatMul(minutes_to_cost_depletion, RatOf(60)))

\* SessionCalculator.calculate_cost_predictions; now is the clock reading of
\* the function itself
calculate_cost_predictions(session_cost, td, cost_limit_arg, now) ==
    LET cost_per_minute == CostPerMinute(session_cost, td.elapsed_session_minutes)
        cost_limit      == IF cost_limit_arg = NoLimit THEN DefaultCostLimit ELSE cost_limit_arg
        cost_remaining  == IF cost_limit - session_cost > 0 THEN cost_limit - session_cost ELSE 0
    IN  [cost_per_minute |-> cost_per_minute,
         cost_limit |-> cost_limit,
         cost_remaining |-> cost_remaining,
         predicted_end_time |->
             IF Projects(cost_per_minute, cost_remaining)
             THEN DepletionInstant(now, RatDiv(RatOf(cost_remaining), cost_per_minute))
             ELSE RatOf(td.reset_time)]

\* the ceiling DisplayController._calculate_cost_predictions passes on
PlanCostLimit(plan_valid, cost_limit_p90) ==
    IF plan_valid /\ cost_limit_p90 # NoLimit THEN cost_limit_p90 ELSE DefaultCostLimit

\* exceed_condition of _check_notifications, on the session cost and the
\* cost limit _process_active_session_data passes
ExceedCondition(session_cost, cost_limit) == session_cost > cost_limit

\* run_out_condition of _check_notifications, on the predicted end time and
\* the reset time _process_active_session_data passes
RunOutCondition(predicted_end_time, reset_time) == RatLt(predicted_end_time, RatOf(reset_time))

\* nothing computed yet
NoCostData == [cost_per_minute |-> RatOf(0), cost_limit |-> NoLimit, cost_remaining |-> 0, predicted_end_time |-> RatOf(NoInstant)]

NothingShown == [screen |-> "none", notified |-> FALSE, guided |-> FALSE, minutes_to_reset |-> RatOf(0), time_remaining |-> RatOf(0), cost_per_min |-> RatOf(0)]

\* the data of an update: nothing, a dict without 'blocks', blocks of which
\* none is active, blocks with an active one
DataInputs == {"empty", "no_blocks_key", "no_active_block", "active_block"}

NoUsableData_emptyOnly(data) == data = "empty"

\* not data or "blocks" not in data
NoUsableData(data) == data \in {"empty", "no_blocks_key"}

\* the loop over data["blocks"] leaves active_block None
NoActiveBlock(data) == data = "no_active_block"

\* minutes_to_reset as _create_simple_display hands it to
\* SimpleDisplayComponent.render
SimpleMinutes(td) == td.minutes_to_reset

\* max(0, total_session_minutes - elapsed_session_minutes) of
\* format_active_session_screen: time_remaining, and the minutes_to_reset
\* handed to _render_guidance_section
SessionMinutes(total_session_minutes, elapsed_session_minutes) ==
    RatMax(RatOf(0), RatSub(total_session_minutes, elapsed_session_minutes))

\* create_data_display without usable data: format_error_screen
CreateErrorScreen ==
    /\ cpc = "update"
    /\ NoUsableData(c_args.data)
    /\ shown' = [NothingShown EXCEPT !.screen = "error"]
    /\ cpc' = "error"
    /\ UNCHANGED <<c_args, time_data, cost_data>>
    /\ UNCHANGED <<alertVars, notifVars, actionVars, threadVars, guideVars, borderVars, frameVars, monVars, limitVars, promptVars>>

\* create_data_display with blocks of which none is active:
\* format_no_active_session_screen
CreateNoSessionScreen ==
    /\ cpc = "update"
    /\ ~NoUsableData(c_args.data)
    /\ NoActiveBlock(c_args.data)
    /\ shown' = [NothingShown EXCEPT !.screen = "no_active_session"]
    /\ cpc' = "no_session"
    /\ UNCHANGED <<c_args, time_data, cost_data>>
    /\ UNCHANGED <<alertVars, notifVars, actionVars, threadVars, guideVars, borderVars, frameVars, monVars, limitVars, promptVars>>

\* create_data_display with use_simple_display: _create_simple_display; an
\* exception out of calculate_time_data leaves create_data_display
CreateSimpleDisplay ==
    /\ cpc = "update"
    /\ ~NoUsableData(c_args.data)
    /\ ~NoActiveBlock(c_args.data)
    /\ c_args.use_simple_display
    /\ LET td == calculate_time_data(c_args.startTime, c_args.endTime, c_args.current_time, c_args.bad_outcome)
       IN  /\ time_data' = td
           /\ IF td.raised
              THEN shown' = shown /\ cpc' = "raised"
              ELSE /\ shown' = [screen |-> "simple", notified |-> FALSE, guided |-> FALSE, minutes_to_reset |-> SimpleMinutes(td), time_remaining |-> SimpleMinutes(td), cost_per_min |-> RatOf(0)]
                   /\ cpc' = "simple"
    /\ UNCHANGED <<c_args, cost_data>>
    /\ UNCHANGED <<alertVars, notifVars, actionVars, threadVars, guideVars, borderVars, frameVars, monVars, limitVars, promptVars>>

\* create_data_display without use_simple_display:
\* _process_active_session_data, then format_active_session_screen; an
\* exception out of _process_active_session_data gives the error screen
CreateSessionDisplay ==
    /\ cpc = "update"
    /\ ~NoUsableData(c_args.data)
    /\ ~NoActiveBlock(c_args.data)
    /\ ~c_args.use_simple_display
    /\ LET td == calculate_time_data(c_args.startTime, c_args.endTime, c_args.current_time, c_args.bad_outcome)
           cd == calculate_cost_predictions(c_args.costUSD, td, PlanCostLimit(c_args.plan_valid, c_args.cost_limit_p90), c_args.current_time + c_args.delay)
           minutes == SessionMinutes(td.total_session_minutes, td.elapsed_session_minutes)
       IN  /\ time_data' = td
           /\ IF td.raised
              THEN /\ cost_data' = cost_data
                   /\ shown' = [NothingShown EXCEPT !.screen = "error"]
                   /\ cpc' = "error"
              ELSE /\ cost_data' = cd
                   /\ shown' = [screen |-> "session", notified |-> TRUE, guided |-> TRUE, minutes_to_reset |-> minutes, time_remaining |-> minutes, cost_per_min |-> CostPerMinute(c_args.costUSD, td.elapsed_session_minutes)]
                   /\ cpc' = "session"
    /\ UNCHANGED c_args
    /\ UNCHANGED <<alertVars, notifVars, actionVars, threadVars, guideVars, borderVars, frameVars, monVars, limitVars, promptVars>>

(***************************************************************************)
(* Pac-Man border (claude_monitor/ui/display_controller.py, PacManBorder)  *)
(***************************************************************************)
\* calls of advance() followed on one border
MaxAdvances == 210

\* width and height of a border: small ones, the default of PacManBorder
\* and the one get_pacman_border creates
BorderSizes == {<<4, 3>>, <<5, 5>>, <<70, 30>>, <<70, 35>>}

\* self._perimeter
Perimeter(width, height) == 2 * (width - 2) + 2 * (height - 2)

\* PacManBorder(width, height, no_motion) while sys.stdout.isatty() is isatty
NewBorder(width, height, no_motion, isatty) ==
    [created |-> TRUE, width |-> width, height |-> height, no_motion |-> no_motion, is_tty |-> isatty, position |-> 0, mouth_open |-> TRUE]

\* _pacman_border = None
NoBorder == [created |-> FALSE, width |-> 0, height |-> 0, no_motion |-> FALSE, is_tty |-> FALSE, position |-> 0, mouth_open |-> TRUE]

\* self._no_motion or not self._is_tty
Static(b) == b.no_motion \/ ~b.is_tty

\* mutant: the position wraps one step late
AdvancePosition_wrapLate(position, perimeter) == (position + 1) % (perimeter + 1)

\* (self._position + 1) % self._perimeter
AdvancePosition(position, perimeter) == (position + 1) % perimeter

\* PacManBorder.advance
advance(b) ==
    IF Static(b) THEN b
    ELSE [b EXCEPT !.position = AdvancePosition(b.position, Perimeter(b.width, b.height)),
                   !.mouth_open = ~b.mouth_open]

\* the Pac-Man characters and the dots of PacManBorder
PAC_RIGHT == "PAC_RIGHT"

PAC_LEFT == "PAC_LEFT"

PAC_UP == "PAC_UP"

PAC_DOWN == "PAC_DOWN"

PAC_CLOSED == "PAC_CLOSED"

BIG_DOT == "BIG_DOT"

SMALL_DOT == "SMALL_DOT"

\* PacManBorder._get_border_char(pos)
get_border_char(b, pos) ==
    LET w == b.width - 2
        h == b.height - 2
    IN  IF pos < w THEN [row |-> 0, col |-> pos + 1, direction |-> "right"]
        ELSE IF pos < w + h THEN [row |-> pos - w + 1, col |-> b.width - 1, direction |-> "down"]
        ELSE IF pos < 2 * w + h THEN [row |-> b.height - 1, col |-> b.width - 2 - (pos - w - h), direction |-> "left"]
        ELSE [row |-> b.height - 2 - (pos - 2 * w - h), col |-> 0, direction |-> "up"]

\* the character render_top puts at index i of the top edge
TopChar(b, i) ==
    IF i = b.position THEN (IF b.mouth_open THEN PAC_RIGHT ELSE PAC_CLOSED)
    ELSE IF i < b.position THEN SMALL_DOT
    ELSE BIG_DOT

\* left_char of render_middle(content, row)
LeftChar(b, row) ==
    LET w == b.width - 2
        h == b.height - 2
        left_pos == 2 * w + h + (h - row)
    IN  IF left_pos % Perimeter(b.width, b.height) = b.position
        THEN (IF b.mouth_open THEN PAC_UP ELSE PAC_CLOSED)
        ELSE IF left_pos % Perimeter(b.width, b.height) > b.position \/ b.position > 2 * w + h
        THEN BIG_DOT
        ELSE SMALL_DOT

\* right_char of render_middle(content, row)
RightChar(b, row) ==
    LET right_pos == (b.width - 2) + row
    IN  IF right_pos = b.position THEN (IF b.mouth_open THEN PAC_DOWN ELSE PAC_CLOSED)
        ELSE IF right_pos < b.position THEN SMALL_DOT
        ELSE BIG_DOT

\* the character render_bottom puts at index i of the bottom edge
BottomChar(b, i) ==
    LET w == b.width - 2
        h == b.height - 2
        pos == (w + h) + (w - 1 - i)
    IN  IF pos = b.position THEN (IF b.mouth_open THEN PAC_LEFT ELSE PAC_CLOSED)
        ELSE IF pos < b.position THEN SMALL_DOT
        ELSE BIG_DOT

\* the border cells of the frame create_screen_renderable builds from a
\* buffer of height - 2 lines with an animated border: render_top,
\* render_middle(line, idx + 1) for each line, render_bottom
FrameCells(b) ==
    {[row |-> 0, col |-> i + 1, char |-> TopChar(b, i)] : i \in 0..(b.width - 3)}
        \cup {[row |-> row, col |-> 0, char |-> LeftChar(b, row)] : row \in 1..(b.height - 2)}
        \cup {[row |-> row, col |-> b.width - 1, char |-> RightChar(b, row)] : row \in 1..(b.height - 2)}
        \cup {[row |-> b.height - 1, col |-> i + 1, char |-> BottomChar(b, i)] : i \in 0..(b.width - 3)}

\* position and mouth phase of a border
Pose(b) == [position |-> b.position, mouth_open |-> b.mouth_open]

\* one call of advance()
AdvanceBorder ==
    /\ border.created
    /\ Len(b_trace) =< MaxAdvances
    /\ border' = advance(border)
    /\ b_trace' = Append(b_trace, Pose(border'))
    /\ UNCHANGED <<alertVars, notifVars, actionVars, threadVars, guideVars, calcVars, frameVars, monVars, limitVars, promptVars>>

(***************************************************************************)
(* Frames (display_controller.py: get_pacman_border,                       *)
(* ScreenBufferManager.create_screen_renderable, the callers in            *)
(* create_data_display; pacman/cli/main.py: the live display)              *)
(***************************************************************************)
\* frames built or drawn in one run
MaxFrames == 5

\* the screens create_data_display wraps in the border
BorderedScreens == {"error", "no_active_session", "session"}

\* get_pacman_border: the shared border, created on the first call
get_pacman_border(shared, no_motion, isatty) ==
    IF ~shared.created THEN NewBorder(70, 35, no_motion, isatty) ELSE shared

\* the no_motion argument create_data_display passes to
\* create_screen_renderable for a screen
NoMotionArg(screen, args_no_motion) == screen = "session" /\ args_no_motion

\* no renderable
NoFrame == [drawn_by |-> "none", screen |-> "none", bordered |-> FALSE, static |-> FALSE, position |-> 0, moved |-> FALSE, isatty |-> FALSE, no_motion |-> FALSE]

\* the renderable create_screen_renderable returns for a screen: the border
\* as rendered before advance(), with the terminal and the flag of that time
FrameOf(screen, b, env) ==
    [drawn_by |-> "update", screen |-> screen, bordered |-> TRUE, static |-> Static(b), position |-> b.position, moved |-> advance(b).position # b.position, isatty |-> env.isatty, no_motion |-> env.no_motion]

\* on_data_update: create_data_display builds an error, no-active-session or
\* session screen with create_screen_renderable, live_display.update
BuildFrame(screen) ==
    /\ Len(frames) < MaxFrames
    /\ LET b == get_pacman_border(border, NoMotionArg(screen, f_env.no_motion), f_env.isatty)
           frame == FrameOf(screen, b, f_env)
       IN  /\ border' = advance(b)
           /\ b_moves' = IF frame.moved THEN b_moves + 1 ELSE b_moves
           /\ frames' = Append(frames, frame)
           /\ live_frame' = frame
    /\ UNCHANGED <<f_env, b_trace>>
    /\ UNCHANGED <<alertVars, notifVars, actionVars, threadVars, guideVars, calcVars, monVars, limitVars, promptVars>>

\* on_data_update: create_data_display with use_simple_display returns the
\* card of SimpleDisplayComponent.render, which has no Pac-Man border
BuildSimpleFrame ==
    /\ Len(frames) < MaxFrames
    /\ LET frame == [NoFrame EXCEPT !.drawn_by = "update", !.screen = "simple", !.isatty = f_env.isatty, !.no_motion = f_env.no_motion]
       IN  /\ frames' = Append(frames, frame)
           /\ live_frame' = frame
    /\ UNCHANGED <<f_env, border, b_trace, b_moves>>
    /\ UNCHANGED <<alertVars, notifVars, actionVars, threadVars, guideVars, calcVars, monVars, limitVars, promptVars>>

\* the live display (auto_refresh, refresh_per_second) draws the renderable
\* it holds
TimerDraw ==
    /\ Len(frames) < MaxFrames
    /\ live_frame.drawn_by # "none"
    /\ frames' = Append(frames, [live_frame EXCEPT !.drawn_by = "timer", !.moved = FALSE, !.isatty = f_env.isatty])
    /\ UNCHANGED <<f_env, live_frame, border, b_trace, b_moves>>
    /\ UNCHANGED <<alertVars, notifVars, actionVars, threadVars, guideVars, calcVars, monVars, limitVars, promptVars>>

\* the output is attached to or detached from a terminal
TtyChange ==
    /\ Len(frames) < MaxFrames
    /\ f_env' = [f_env EXCEPT !.isatty = ~f_env.isatty]
    /\ UNCHANGED <<frames, live_frame, border, b_trace, b_moves>>
    /\ UNCHANGED <<alertVars, notifVars, actionVars, threadVars, guideVars, calcVars, monVars, limitVars, promptVars>>

(***************************************************************************)
(* The monitoring loop (pacman/cli/main.py, _run_monitoring)               *)
(***************************************************************************)
\* handlers (data updates and keypresses) run in one session
MaxEvents == 3

\* COMPACT_COOLDOWN, seconds
COMPACT_COOLDOWN == 600

\* COMPACT_THRESHOLD, percent
COMPACT_THRESHOLD == 70

\* time.time() when the session starts: far more than COMPACT_COOLDOWN
\* after last_compact_time = 0.0
StartClock == 1000

\* seconds from one data update to the next
DelayChoices == {10, 590}

\* the active block and the limit of a data update
UpdateInputs ==
    { [active |-> FALSE, total_tokens |-> 80, token_limit |-> 100],
      [active |-> TRUE, total_tokens |-> 69, token_limit |-> 100],
      [active |-> TRUE, total_tokens |-> 70, token_limit |-> 100],
      [active |-> TRUE, total_tokens |-> 80, token_limit |-> 0] }

\* what fails while the display is built and handed to the live display
DisplayErrors == {"none", "create_data_display", "live_display.update"}

\* how the start of _run_monitoring goes
StartOutcomes == {"ok", "no_data_paths", "start_raises"}

\* before setup_terminal()
NotStarted == [orchestrator |-> "none", live |-> "none", terminal |-> "cooked", auto_compact |-> FALSE, ended_by |-> "none"]

NoCounts == [events |-> 0, errors |-> 0, after_error |-> 0, y_keys |-> 0, accepts |-> 0]

CompactDue_noCooldown(auto_compact_enabled, total_tokens, current_limit, now, last) ==
    /\ auto_compact_enabled
    /\ current_limit > 0
    /\ total_tokens * 100 >= COMPACT_THRESHOLD * current_limit

\* the conditions under which on_data_update launches claude /compact
CompactDue(auto_compact_enabled, total_tokens, current_limit, now, last) ==
    /\ auto_compact_enabled
    /\ current_limit > 0
    /\ total_tokens * 100 >= COMPACT_THRESHOLD * current_limit
    /\ now - last >= COMPACT_COOLDOWN

\* last_compact_time after the launch was attempted: set after Popen
\* returned, left alone when Popen raised
AfterAttempt(now, last, popen_ok) == IF popen_ok THEN now ELSE last

UpdateCatches_displayOnly(error) == error = "create_data_display"

\* the except Exception of on_data_update
UpdateCatches(error) == error \in DisplayErrors \ {"none"}

InnerFinally_liveOnly(st) ==
    [st EXCEPT !.live = IF st.live = "entered" THEN "exited" ELSE @]

\* the finally of the inner try: orchestrator.stop(), live_display.__exit__
InnerFinally(st) ==
    [st EXCEPT !.orchestrator = IF st.orchestrator # "none" THEN "stopped" ELSE @,
               !.live = IF st.live = "entered" THEN "exited" ELSE @]

\* the except clauses and the finally of the outer try:
\* live_display.__exit__ again, restore_terminal
OuterFinally(st, reason) ==
    [st EXCEPT !.live = IF st.live = "entered" THEN "exited" ELSE @,
               !.terminal = "restored",
               !.ended_by = reason]

\* the counters after one more handler that caught this many errors
Counted(errors) ==
    [m_count EXCEPT !.events = @ + 1,
                    !.errors = @ + errors,
                    !.after_error = IF m_count.errors > 0 THEN @ + 1 ELSE @]

\* _run_monitoring up to the polling loop
Startup(outcome, auto_compact) ==
    /\ mpc = "start"
    /\ LET raw == [mon EXCEPT !.terminal = "raw", !.auto_compact = auto_compact]
           begun == [raw EXCEPT !.live = "entered", !.orchestrator = "started"]
       IN  IF outcome = "ok"
           THEN mon' = begun /\ mpc' = "loop"
           ELSE IF outcome = "no_data_paths"
           THEN mon' = OuterFinally(raw, "no_data_paths") /\ mpc' = "exited"
           ELSE mon' = OuterFinally(InnerFinally(begun), "startup_error") /\ mpc' = "exited"
    /\ UNCHANGED <<m_now, last_compact_time, m_attempts, m_count>>
    /\ UNCHANGED <<alertVars, notifVars, actionVars, threadVars, guideVars, calcVars, borderVars, frameVars, limitVars, promptVars>>

\* on_data_update(monitoring_data): the auto-compact trigger, then
\* create_data_display with its guidance step, then live_display.update
DataUpdate(update, delay, popen_ok, error, guidance) ==
    /\ mpc = "loop"
    /\ m_count.events < MaxEvents
    /\ LET now == m_now + delay
           due == /\ update.active
                  /\ CompactDue(mon.auto_compact, update.total_tokens, update.token_limit, now, last_compact_time)
           caught == (IF due /\ ~popen_ok THEN 1 ELSE 0) + (IF error # "none" THEN 1 ELSE 0)
       IN  /\ m_now' = now
           /\ last_compact_time' = IF due THEN AfterAttempt(now, last_compact_time, popen_ok) ELSE last_compact_time
           /\ m_attempts' =
                  IF due
                  THEN Append(m_attempts, [time |-> now, ok |-> popen_ok, enabled |-> mon.auto_compact, total_tokens |-> update.total_tokens, token_limit |-> update.token_limit])
                  ELSE m_attempts
           /\ action_state' =
                  IF error = "create_data_display" THEN action_state
                  ELSE IF ShowAction(guidance, action_state)
                  THEN set_action(action_state, guidance.action_command)
                  ELSE clear_action(action_state)
           /\ IF error = "none" \/ UpdateCatches(error)
              THEN mpc' = mpc /\ mon' = mon
              ELSE mpc' = "exited" /\ mon' = OuterFinally(InnerFinally(mon), "handler_error")
           /\ m_count' = Counted(caught)
    /\ prompted' = IF error # "none" THEN prompted
                   ELSE IF ShowAction(guidance, action_state) THEN guidance.action_command
                   ELSE None
    /\ UNCHANGED <<launched, key_result, hist, k_seen>>
    /\ UNCHANGED <<alertVars, notifVars, threadVars, guideVars, calcVars, borderVars, frameVars, limitVars>>

\* one turn of the polling loop in which poll_keyboard returns a key:
\* handle_keypress(key)
LoopKey(key, popen_ok) ==
    /\ mpc = "loop"
    /\ m_count.events < MaxEvents
    /\ handle_keypress(key, popen_ok)
    /\ m_count' = [Counted(IF launched' # <<>> /\ ~launched'[1].ok THEN 1 ELSE 0)
                      EXCEPT !.y_keys = IF key = "y" THEN @ + 1 ELSE @,
                             !.accepts = @ + Len(launched')]
    /\ UNCHANGED <<mpc, mon, m_now, last_compact_time, m_attempts>>

\* KeyboardInterrupt in the polling loop: the finally of the inner try,
\* except KeyboardInterrupt, the finally of the outer try
Interrupt ==
    /\ mpc = "loop"
    /\ mon' = OuterFinally(InnerFinally(mon), "interrupt")
    /\ mpc' = "exited"
    /\ UNCHANGED <<m_now, last_compact_time, m_attempts, m_count>>
    /\ UNCHANGED <<alertVars, notifVars, actionVars, threadVars, guideVars, calcVars, borderVars, frameVars, limitVars, promptVars>>

(***************************************************************************)
(* Token limits of a cycle (claude_monitor/ui/display_controller.py,       *)
(* _calculate_token_limits and its caller _process_active_session_data)    *)
(***************************************************************************)
\* args.plan
PlanInputs == {"pro", "custom"}

\* args.custom_limit_tokens: None or 0 (as 0), or a number of tokens
CustomLimitInputs == {0, 1, 2}

\* the token limit create_data_display is called with
SessionLimitInputs == {0, 1, 2}

calculate_token_limits_keepOriginal(plan, has_custom_limit, custom_limit_tokens, token_limit) ==
    IF plan = "custom" /\ has_custom_limit /\ custom_limit_tokens # 0
    THEN <<custom_limit_tokens, token_limit>>
    ELSE <<token_limit, token_limit>>

\* DisplayController._calculate_token_limits: (token_limit, original_limit)
calculate_token_limits(plan, has_custom_limit, custom_limit_tokens, token_limit) ==
    IF plan = "custom" /\ has_custom_limit /\ custom_limit_tokens # 0
    THEN <<custom_limit_tokens, custom_limit_tokens>>
    ELSE <<token_limit, token_limit>>

\* one cycle of _process_active_session_data: the limits, then
\* _check_notifications on them and on the cost and time values of the cycle
ProcessLimits(plan, has_custom_limit, custom_limit_tokens, token_limit, session_cost, cost_limit, predicted_end_time, reset_time) ==
    LET limits == calculate_token_limits(plan, has_custom_limit, custom_limit_tokens, token_limit)
    IN  /\ l_args' = [plan |-> plan, has_custom_limit |-> has_custom_limit, custom_limit_tokens |-> custom_limit_tokens, token_limit |-> token_limit]
        /\ l_limits' = limits
        /\ check_notifications(limits[1], limits[2], session_cost, cost_limit, predicted_end_time, reset_time)

(***************************************************************************)
(* Initial states and specifications                                       *)
(***************************************************************************)
\* ThresholdAlert.__init__
AlertFresh ==
    /\ alerted_thresholds = {}
    /\ last_usage_pct = ZeroPct
    /\ ret = NoRung
    /\ calls = <<>>

NotifFresh ==
    /\ notif_states = [k \in NotifKeys |-> FALSE]
    /\ notifications = [k \in NotifKeys |-> FALSE]
    /\ conds = [k \in NotifKeys |-> FALSE]
    /\ prev_conds = [k \in NotifKeys |-> FALSE]
    /\ marked = {}

\* _action_state = ActionState(), no handler running
ActionFresh ==
    /\ action_state = [current_action |-> None, dismissed_actions |-> {}]
    /\ launched = <<>>
    /\ key_result = None
    /\ hist = <<>>
    /\ rpc = "idle"
    /\ r_guidance = [action_prompt |-> None, interactive |-> FALSE,
                     action_command |-> None]
    /\ r_show = FALSE
    /\ kpc = "idle"
    /\ k_action = None
    /\ prompted = None
    /\ k_seen = None

\* no get_primary_guidance call is modelled
GuideIdle ==
    /\ g_args = [usage_percentage |-> 0, burn_rate |-> 0, model_distribution |-> [k \in {} |-> 0], minutes_to_reset |-> 0, current_model |-> OpusWord, recent_messages |-> CHOOSE m \in MessageInputs : m.empty]
    /\ g_result = GuidanceOf(9, 0, 0, NoTimeStr)
    /\ g_task = UNKNOWN
    /\ gpc = "idle"

\* no data update is modelled
CalcIdle ==
    /\ c_args = [data |-> "empty", startTime |-> NoStamp, endTime |-> NoStamp, bad_outcome |-> "none", current_time |-> T, delay |-> 0, costUSD |-> 0, plan_valid |-> FALSE, cost_limit_p90 |-> NoLimit, use_simple_display |-> TRUE]
    /\ time_data = NoTimeData
    /\ cost_data = NoCostData
    /\ shown = NothingShown
    /\ cpc = "idle"

\* no border is modelled
BorderIdle ==
    /\ border = NoBorder
    /\ b_trace = <<>>

\* _run_monitoring is not modelled
MonitorIdle ==
    /\ mpc = "start"
    /\ mon = NotStarted
    /\ m_now = StartClock
    /\ last_compact_time = 0
    /\ m_attempts = <<>>
    /\ m_count = NoCounts

\* no cycle of _process_active_session_data is modelled
LimitsIdle ==
    /\ l_args = [plan |-> "pro", has_custom_limit |-> FALSE, custom_limit_tokens |-> 0, token_limit |-> 0]
    /\ l_limits = <<0, 0>>

\* no frame is modelled
FramesIdle ==
    /\ f_env = [isatty |-> TRUE, no_motion |-> FALSE]
    /\ frames = <<>>
    /\ live_frame = NoFrame
    /\ b_moves = 0

InitAlert == AlertFresh /\ NotifFresh /\ ActionFresh /\ GuideIdle /\ CalcIdle /\ BorderIdle /\ FramesIdle /\ MonitorIdle /\ LimitsIdle

NextAlert ==
    \E tokens_used \in TokenInputs, token_limit \in LimitInputs :
        check_and_alert(tokens_used, token_limit)

SpecAlert == InitAlert /\ [][NextAlert]_vars

InitNotif == AlertFresh /\ NotifFresh /\ ActionFresh /\ GuideIdle /\ CalcIdle /\ BorderIdle /\ FramesIdle /\ MonitorIdle /\ LimitsIdle

NextNotif ==
    \E token_limit \in NotifInputs, original_limit \in NotifInputs,
       session_cost \in NotifInputs, cost_limit \in NotifInputs,
       predicted_end_time \in NotifInputs, reset_time \in NotifInputs :
        /\ check_notifications(token_limit, original_limit, session_cost,
                               cost_limit, predicted_end_time, reset_time)
        /\ UNCHANGED limitVars

SpecNotif == InitNotif /\ [][NextNotif]_vars

InitAction == AlertFresh /\ NotifFresh /\ ActionFresh /\ GuideIdle /\ CalcIdle /\ BorderIdle /\ FramesIdle /\ MonitorIdle /\ LimitsIdle

NextAction ==
    \/ \E guidance \in GuidanceInputs : RenderGuidance(guidance)
    \/ \E guidance \in GuidanceInputs : RenderSessionGuidance(guidance)
    \/ \E key \in KeyInputs, popen_ok \in BOOLEAN : handle_keypress(key, popen_ok) /\ UNCHANGED monVars

SpecAction == InitAction /\ [][NextAction]_vars

InitActionConc == AlertFresh /\ NotifFresh /\ ActionFresh /\ GuideIdle /\ CalcIdle /\ BorderIdle /\ FramesIdle /\ MonitorIdle /\ LimitsIdle

NextActionConc ==
    \/ \E guidance \in GuidanceInputs : R_check(guidance)
    \/ R_apply
    \/ R_publish
    \/ \E key \in KeyInputs : K_start(key)
    \/ K_y_read
    \/ \E popen_ok \in BOOLEAN : K_y_exec(popen_ok)
    \/ K_y_clear
    \/ K_n_test
    \/ K_n_add
    \/ K_n_clear

SpecActionConc == InitActionConc /\ [][NextActionConc]_vars

InitGuidance ==
    /\ AlertFresh /\ NotifFresh /\ ActionFresh /\ CalcIdle /\ BorderIdle /\ FramesIdle /\ MonitorIdle /\ LimitsIdle
    /\ g_args \in [usage_percentage : UsageInputs, burn_rate : RateInputs, model_distribution : DistInputs, minutes_to_reset : MinutesInputs, current_model : ModelInputs, recent_messages : MessageInputs]
    /\ g_result = GuidanceOf(9, 0, 0, NoTimeStr)
    /\ g_task = UNKNOWN
    /\ gpc = "call"

NextGuidance == CallGuidance

SpecGuidance == InitGuidance /\ [][NextGuidance]_vars

InitCalc ==
    /\ AlertFresh /\ NotifFresh /\ ActionFresh /\ GuideIdle /\ BorderIdle /\ FramesIdle /\ MonitorIdle /\ LimitsIdle
    /\ c_args \in [data : DataInputs, startTime : StartInputs, endTime : EndInputs, bad_outcome : BadStampOutcomes, current_time : NowInputs, delay : DelayInputs, costUSD : CostInputs, plan_valid : BOOLEAN, cost_limit_p90 : P90Inputs, use_simple_display : BOOLEAN]
    /\ time_data = NoTimeData
    /\ cost_data = NoCostData
    /\ shown = NothingShown
    /\ cpc = "update"

NextCalc == CreateErrorScreen \/ CreateNoSessionScreen \/ CreateSimpleDisplay \/ CreateSessionDisplay

SpecCalc == InitCalc /\ [][NextCalc]_vars

InitBorder ==
    /\ AlertFresh /\ NotifFresh /\ ActionFresh /\ GuideIdle /\ CalcIdle /\ FramesIdle /\ MonitorIdle /\ LimitsIdle
    /\ \E size \in BorderSizes, no_motion \in BOOLEAN, isatty \in BOOLEAN :
           border = NewBorder(size[1], size[2], no_motion, isatty)
    /\ b_trace = <<Pose(border)>>

NextBorder == AdvanceBorder

SpecBorder == InitBorder /\ [][NextBorder]_vars

InitFrames ==
    /\ AlertFresh /\ NotifFresh /\ ActionFresh /\ GuideIdle /\ CalcIdle /\ BorderIdle /\ MonitorIdle /\ LimitsIdle
    /\ f_env \in [isatty : BOOLEAN, no_motion : BOOLEAN]
    /\ frames = <<>>
    /\ live_frame = NoFrame
    /\ b_moves = 0

NextFrames ==
    \/ \E screen \in BorderedScreens : BuildFrame(screen)
    \/ BuildSimpleFrame
    \/ TimerDraw
    \/ TtyChange

SpecFrames == InitFrames /\ [][NextFrames]_vars

InitMonitor == AlertFresh /\ NotifFresh /\ ActionFresh /\ GuideIdle /\ CalcIdle /\ BorderIdle /\ FramesIdle /\ MonitorIdle /\ LimitsIdle

NextMonitor ==
    \/ \E outcome \in StartOutcomes, auto_compact \in BOOLEAN : Startup(outcome, auto_compact)
    \/ \E update \in UpdateInputs, delay \in DelayChoices, popen_ok \in BOOLEAN, error \in DisplayErrors, guidance \in GuidanceInputs :
           DataUpdate(update, delay, popen_ok, error, guidance)
    \/ \E key \in KeyInputs, popen_ok \in BOOLEAN : LoopKey(key, popen_ok)
    \/ Interrupt

SpecMonitor == InitMonitor /\ [][NextMonitor]_vars

InitLimits == AlertFresh /\ NotifFresh /\ ActionFresh /\ GuideIdle /\ CalcIdle /\ BorderIdle /\ FramesIdle /\ MonitorIdle /\ LimitsIdle

NextLimits ==
    \E plan \in PlanInputs, has_custom_limit \in BOOLEAN, custom_limit_tokens \in CustomLimitInputs, token_limit \in SessionLimitInputs, session_cost \in NotifInputs, cost_limit \in NotifInputs, predicted_end_time \in NotifInputs, reset_time \in NotifInputs :
        ProcessLimits(plan, has_custom_limit, custom_limit_tokens, token_limit, session_cost, cost_limit, predicted_end_time, reset_time)

SpecLimits == InitLimits /\ [][NextLimits]_vars

(***************************************************************************)
(* Properties of ThresholdAlert, stated on the history of calls            *)
(***************************************************************************)
Rungs == {50, 75, 90}

\* call i computed a percentage (it did not take the early return)
HasPct(i) == calls[i].limit > 0

\* percentage of call i < percentage of call j - d   (both have one)
PctBelowBy(i, j, d) ==
    calls[i].used * 100 * calls[j].limit
        < (calls[j].used * 100 - d * calls[j].limit) * calls[i].limit

\* percentage of call i = p
PctIs(i, p) == HasPct(i) /\ calls[i].used * 100 = p * calls[i].limit

\* the rungs at or below the percentage of call i
RungsReached(i) ==
    {r \in Rungs : calls[i].used * 100 >= r * calls[i].limit}

\* the last call before i that computed a percentage, 0 when there is none
PrevWithPct(i) ==
    LET before == {j \in 1..(i - 1) : HasPct(j)}
    IN  IF before = {} THEN 0
        ELSE CHOOSE j \in before : \A k \in before : k <= j

\* call i observed a percentage more than 10 points below the percentage of
\* the call before it
DropAt(i) ==
    /\ HasPct(i)
    /\ PrevWithPct(i) # 0
    /\ PctBelowBy(i, PrevWithPct(i), 10)

\* no call after i, up to and including j, observed such a drop
NoDropBetween(i, j) == \A k \in (i + 1)..j : ~DropAt(k)

LowestOf(S) == CHOOSE r \in S : \A q \in S : r <= q

\* C2: the same rung is never returned twice unless, between the two returns,
\* some call observed a percentage more than 10 points below the percentage
\* of the call before it.
C2_NoRepeatWithoutDrop ==
    \A i, j \in 1..Len(calls) :
        (i < j /\ calls[i].ret # NoRung /\ calls[i].ret = calls[j].ret)
            => ~NoDropBetween(i, j)

\* a rung was returned, the percentage then fell by exactly 10 points and rose
\* again to the rung, and the rung was not returned a second time
C2_Witness ==
    \E i, j \in 1..Len(calls) :
        /\ i < j /\ j < Len(calls)
        /\ calls[i].ret = 50
        /\ HasPct(j) /\ PrevWithPct(j) # 0
        /\ PctBelowBy(j, PrevWithPct(j), 9) /\ ~PctBelowBy(j, PrevWithPct(j), 10)
        /\ 50 \in RungsReached(Len(calls)) /\ HasPct(Len(calls))
        /\ NoDropBetween(i, Len(calls))
        /\ calls[Len(calls)].ret = NoRung

\* the rungs call i reaches that the call before it had not reached
NewlyReached(i) ==
    IF i = 1 THEN RungsReached(1) ELSE RungsReached(i) \ RungsReached(i - 1)

\* every call has a percentage, the percentages never decrease and each call
\* crosses at most one new rung
GentleRise ==
    \A i \in 1..Len(calls) :
        /\ HasPct(i)
        /\ i > 1 => ~PctBelowBy(i, i - 1, 0)
        /\ Cardinality(NewlyReached(i)) <= 1

IsSeq10_55_80_95 ==
    /\ Len(calls) = 4
    /\ PctIs(1, 10) /\ PctIs(2, 55) /\ PctIs(3, 80) /\ PctIs(4, 95)

\* C3: on a fresh ThresholdAlert, for a non-decreasing percentage sequence in
\* which each call crosses at most one new rung, each call returns the rung it
\* is the first to reach and None otherwise; the percentages 10, 55, 80, 95
\* return None, 50, 75, 90.
C3_GentleRiseReturnsEachRungOnce ==
    /\ GentleRise =>
           \A i \in 1..Len(calls) :
               calls[i].ret = IF NewlyReached(i) = {} THEN NoRung
                              ELSE LowestOf(NewlyReached(i))
    /\ IsSeq10_55_80_95 =>
           /\ calls[1].ret = NoRung /\ calls[2].ret = 50
           /\ calls[3].ret = 75 /\ calls[4].ret = 90

C3_Witness ==
    /\ IsSeq10_55_80_95
    /\ GentleRise
    /\ alerted_thresholds = {50, 75, 90}

\* the rungs returned before call i and since the last drop of more than 10
\* points seen up to call i
ReturnedSinceDrop(i) ==
    {calls[j].ret : j \in {k \in 1..(i - 1) :
                              calls[k].ret # NoRung /\ NoDropBetween(k, i)}}

\* the rungs at or below the percentage of call i that call i finds unalerted
Outstanding(i) == RungsReached(i) \ ReturnedSinceDrop(i)

\* C4: a call that finds several unalerted rungs at or below its percentage
\* returns only the lowest; the next call, when its percentage is still at or
\* above the remaining rungs and has not dropped by more than 10 points,
\* returns the lowest of the remaining ones, so the crossed rungs come out in
\* ascending order, one per call.
C4_LowestFirstThenNext ==
    \A i \in 1..Len(calls) :
        (HasPct(i) /\ Cardinality(Outstanding(i)) >= 2) =>
            /\ calls[i].ret = LowestOf(Outstanding(i))
            /\ (/\ i < Len(calls)
                /\ HasPct(i + 1)
                /\ ~DropAt(i + 1)
                /\ Outstanding(i) \subseteq RungsReached(i + 1))
                   => calls[i + 1].ret
                         = LowestOf(Outstanding(i) \ {calls[i].ret})

\* one call crossed all three rungs at once and the next two picked up the rest
C4_Witness ==
    /\ Len(calls) >= 3
    /\ HasPct(1) /\ Outstanding(1) = {50, 75, 90}
    /\ HasPct(2) /\ HasPct(3) /\ ~DropAt(2) /\ ~DropAt(3)
    /\ <<calls[1].ret, calls[2].ret, calls[3].ret>> = <<50, 75, 90>>

\* C5 (as stated): None is returned on every call whose percentage is not
\* greater than the percentage of the previous call, and on every call whose
\* token limit is zero or negative.
C5_NoAlertUnlessRising ==
    \A i \in 1..Len(calls) :
        /\ ~HasPct(i) => calls[i].ret = NoRung
        /\ (HasPct(i) /\ PrevWithPct(i) # 0
               /\ ~PctBelowBy(PrevWithPct(i), i, 0))
              => calls[i].ret = NoRung

\* C5 (amended): None is returned on every call whose token limit is zero or
\* negative, and on every call whose percentage is neither greater than nor
\* more than 10 points below the percentage of the previous call that had a
\* positive limit, when that previous call returned None.
C5_NoAlertOnceCaughtUp ==
    \A i \in 1..Len(calls) :
        /\ ~HasPct(i) => calls[i].ret = NoRung
        /\ (/\ HasPct(i) /\ PrevWithPct(i) # 0
            /\ ~PctBelowBy(PrevWithPct(i), i, 0)
            /\ ~DropAt(i)
            /\ calls[PrevWithPct(i)].ret = NoRung)
              => calls[i].ret = NoRung

\* a call with a non-positive limit came after a call that left rungs
\* outstanding, and a later call at an unchanged percentage, made once the
\* rungs had all been returned, returned None
C5_Witness ==
    \E i, j \in 1..Len(calls) :
        /\ ~HasPct(i) /\ calls[i].used * 2 >= 1 /\ i > 1
        /\ Outstanding(i - 1) # {}
        /\ HasPct(j) /\ PrevWithPct(j) # 0
        /\ RungsReached(j) # {}
        /\ ~PctBelowBy(PrevWithPct(j), j, 0) /\ ~PctBelowBy(j, PrevWithPct(j), 0)
        /\ calls[PrevWithPct(j)].ret = NoRung
        /\ calls[j].ret = NoRung

\* C6: the alerted set is cleared exactly when the new percentage is lower
\* than the previous call's by more than 10 points; a smaller drop, an
\* unchanged value or a rise keeps every alerted rung: the alerted set is the
\* set of rungs returned since the last such drop.
C6_ClearedExactlyOnDrop ==
    alerted_thresholds =
        {calls[j].ret : j \in {k \in 1..Len(calls) :
                                  calls[k].ret # NoRung
                                     /\ NoDropBetween(k, Len(calls))}}

\* a decline of exactly 10 points kept the alerted rung, and a later drop of
\* more than 10 points cleared it
C6_Witness ==
    \E i, j \in 2..Len(calls) :
        /\ i < j
        /\ HasPct(i) /\ HasPct(i - 1)
        /\ PctBelowBy(i, i - 1, 9) /\ ~PctBelowBy(i, i - 1, 10)
        /\ calls[i - 1].ret # NoRung
        /\ DropAt(j) /\ j = Len(calls)
        /\ calls[i - 1].ret \notin alerted_thresholds

(***************************************************************************)
(* Properties of _check_notifications                                      *)
(***************************************************************************)
\* C1: for each of the three conditions the first-time notification
\* (mark_notified) happens at most once per contiguous run of cycles in which
\* the condition is true, and happens again on the first true cycle after the
\* condition has been false for at least one cycle: it happens exactly on the
\* cycles where the condition is true and was false in the cycle before.
C1_MarkedOnEveryRisingEdge ==
    \A k \in NotifKeys : (k \in marked) <=> (conds[k] /\ ~prev_conds[k])

(***************************************************************************)
(* Properties of ActionState, handle_keypress and the guidance step        *)
(***************************************************************************)
\* the handler that ran n handlers before the last one
Handler(n) == hist[Len(hist) - n]

\* the last handler was handle_keypress(key) with a command pending
LastWasKeyOnPending(key) ==
    /\ Len(hist) >= 1
    /\ Handler(0).op = "key" /\ Handler(0).arg = key
    /\ Handler(0).pending # None

\* the last three handlers were: a guidance step for a command, a press of
\* 'n', a guidance step for a command
SetDeclineSet ==
    /\ Len(hist) >= 3
    /\ Handler(2).op = "render" /\ Handler(2).arg # None
    /\ Handler(1).op = "key" /\ Handler(1).arg = "n"
    /\ Handler(0).op = "render" /\ Handler(0).arg # None

\* C7: dismissal persists for the session: after set-pending(X), decline,
\* set-pending(X) the pending command is none, for every command X; a
\* set-pending(Y) for a different command Y that was never dismissed makes Y
\* the pending command.
C7_DismissalPersists ==
    SetDeclineSet =>
        /\ Handler(0).arg = Handler(2).arg
              => action_state.current_action = None
        /\ (/\ Handler(0).arg # Handler(2).arg
            /\ Handler(0).arg \notin action_state.dismissed_actions)
              => action_state.current_action = Handler(0).arg

\* the first guidance step made X pending, 'n' declined it, and the second
\* guidance step for X left nothing pending
C7_Witness ==
    /\ SetDeclineSet
    /\ Handler(1).pending = Handler(2).arg
    /\ Handler(0).arg = Handler(2).arg
    /\ Handler(0).arg \in action_state.dismissed_actions
    /\ action_state.current_action = None

C9_DeclineDismissesAndClears ==
    LastWasKeyOnPending("n") =>
        /\ Handler(0).pending \in action_state.dismissed_actions
        /\ action_state.current_action = None
        /\ launched = <<>>

\* 'n' was pressed on a pending command that had not been dismissed before
C9_Witness ==
    /\ LastWasKeyOnPending("n")
    /\ key_result = "Dismissed suggestion"
    /\ action_state.dismissed_actions = {Handler(0).pending}

\* C10 (as stated): under every interleaving of the render thread with the
\* keyboard thread the pending command is not a member of the dismissed set
\* (read at the points where neither thread is inside a handler), so a
\* declined command never becomes pending afterwards.
C10_PendingNeverDismissed ==
    (rpc = "idle" /\ kpc = "idle" /\ action_state.current_action # None)
        => action_state.current_action \notin action_state.dismissed_actions

(***************************************************************************)
(* Properties of the guidance engine (SpecGuidance)                        *)
(***************************************************************************)
\* what the call was given
Usage == g_args.usage_percentage

Rate == g_args.burn_rate

OpusShare == IF "opus" \in DOMAIN g_args.model_distribution THEN g_args.model_distribution["opus"] ELSE 0

TaskIntent == detect_task_type(g_args.recent_messages)

OpusActive == Contains(Lower(g_args.current_model), OpusWord)

Returned == gpc = "done"

\* the call returned exactly what the i-th rule builds
IsRule(i) == g_result = GuidanceOf(i, Usage, OpusShare, format_time(g_args.minutes_to_reset))

Rule2Matches == Rate > 100 /\ Usage >= 70

\* C11: for every usage percentage >= 90 the call returns the rule-1 result
\* (urgent, interactive, command 'compact'), whatever the burn rate, the
\* distribution, the active model, the remaining minutes and the task intent.
C11_Rule1AtOrAbove90 ==
    (Returned /\ Usage >= 90) =>
        /\ IsRule(1)
        /\ g_result.urgency = "urgent"
        /\ g_result.interactive
        /\ g_result.action_command = "compact"

\* rule 1 returned although every later test would have matched something
C11_Witness ==
    /\ Returned /\ Usage >= 90 /\ Rate > 150 /\ OpusShare > 60
    /\ TaskIntent = PLANNING /\ OpusActive
    /\ IsRule(1)

\* C12: with task intent unknown, usage in [50, 90), opus share > 60 and rule
\* 2 not matching, the call returns the rule-5 result (normal, interactive,
\* command 'model sonnet') and neither the rule-6 nor the rule-8 result.
C12_Rule5BeforeRules6And8 ==
    (Returned /\ TaskIntent = UNKNOWN /\ Usage >= 50 /\ Usage < 90 /\ OpusShare > 60 /\ ~Rule2Matches) =>
        /\ IsRule(5)
        /\ g_result.urgency = "normal"
        /\ g_result.interactive
        /\ g_result.action_command = "model sonnet"
        /\ ~IsRule(6)
        /\ ~IsRule(8)

\* the case usage = 55, share = 70, rate = 5
C12_Witness ==
    /\ Returned /\ TaskIntent = UNKNOWN /\ Usage = 55 /\ OpusShare = 70 /\ Rate = 5
    /\ IsRule(5)

\* the rule the cascade of C13 names, rule 1 left out as in the claim's words
CascadeWithoutRule1 ==
    IF Rate > 100 /\ 70 =< Usage /\ Usage < 90 THEN 2
    ELSE IF OpusShare > 60 /\ Usage >= 50 THEN 5
    ELSE IF Usage >= 75 THEN 6
    ELSE IF Rate > 150 THEN 7
    ELSE IF Usage >= 50 THEN 8
    ELSE 9

\* the urgency and the command that go with each rule of the cascade
OutcomeOfRule(i) ==
    CASE i \in {1, 2} -> <<"urgent", "compact">>
      [] i = 5 -> <<"normal", "model sonnet">>
      [] i = 6 -> <<"normal", "compact">>
      [] OTHER -> <<"calm", None>>

\* the call returned the result of rule i and of no other rule
ExactlyRule(i) ==
    /\ IsRule(i)
    /\ <<g_result.urgency, g_result.action_command>> = OutcomeOfRule(i)
    /\ \A j \in 1..9 : j # i => ~IsRule(j)

\* C13 as stated: with task intent unknown, for every (usage, rate, opus
\* share) the call returns rule 2 when rate > 100 and 70 <= usage < 90,
\* otherwise rule 5 when share > 60 and usage >= 50, otherwise rule 6 when
\* usage >= 75, otherwise rule 7 when rate > 150, otherwise rule 8 when
\* usage >= 50, otherwise rule 9.  Violated at usage >= 90, where the call
\* returns rule 1.
C13_CascadeAsStated ==
    (Returned /\ TaskIntent = UNKNOWN) => ExactlyRule(CascadeWithoutRule1)

\* C13: with task intent unknown the call returns exactly one rule's result:
\* rule 1 when usage >= 90, otherwise rule 2 when rate > 100 and usage >= 70,
\* otherwise rule 5 when share > 60 and usage >= 50, otherwise rule 6 when
\* usage >= 75, otherwise rule 7 when rate > 150, otherwise rule 8 when
\* usage >= 50, otherwise rule 9; no result combines two rules.
C13_OrderedCascade ==
    (Returned /\ TaskIntent = UNKNOWN) =>
        ExactlyRule(IF Usage >= 90 THEN 1 ELSE CascadeWithoutRule1)

\* rule 7 and rule 8 both match and the earlier one is returned
C13_Witness ==
    /\ Returned /\ TaskIntent = UNKNOWN
    /\ Usage >= 50 /\ Usage < 70 /\ Rate > 150 /\ OpusShare =< 60
    /\ IsRule(7)
    /\ g_result.urgency = "calm" /\ g_result.action_command = None

\* rule 3 of the claim: intent 'simple', the active model is opus, share > 40
SimpleOnOpus == TaskIntent = PLANNING /\ OpusActive /\ OpusShare > 40

\* rule 4 of the claim: intent 'complex', the active model is not opus, usage < 70
ComplexOnCheap == TaskIntent = CODING /\ ~OpusActive /\ Usage < 70

\* C14: when rules 1 and 2 do not match, intent 'simple' with opus active and
\* share > 40 gives an interactive suggestion to switch to sonnet; else intent
\* 'complex' with another model active and usage < 70 gives an interactive
\* suggestion to switch to opus; with intent unknown neither result is ever
\* returned.
C14_IntentRules ==
    Returned =>
        /\ (Usage < 90 /\ ~Rule2Matches /\ SimpleOnOpus) =>
               /\ IsRule(3)
               /\ g_result.interactive
               /\ g_result.suggested_model = "sonnet"
               /\ g_result.action_command = "model sonnet"
        /\ (Usage < 90 /\ ~Rule2Matches /\ ~SimpleOnOpus /\ ComplexOnCheap) =>
               /\ IsRule(4)
               /\ g_result.interactive
               /\ g_result.suggested_model = "opus"
               /\ g_result.action_command = "model opus"
        /\ TaskIntent = UNKNOWN =>
               /\ ~IsRule(3)
               /\ ~IsRule(4)
               /\ g_result.suggested_model = None

\* the switch to sonnet is suggested for a model name written with capitals,
\* at a usage and share where rule 5 would match as well
C14_Witness ==
    /\ Returned /\ Usage >= 50 /\ Usage < 90 /\ ~Rule2Matches /\ OpusShare > 60
    /\ SimpleOnOpus /\ g_args.current_model # Lower(g_args.current_model)
    /\ IsRule(3)

\* the switch to opus is suggested
C14_WitnessComplex ==
    /\ Returned /\ ~Rule2Matches /\ ComplexOnCheap
    /\ IsRule(4)

\* intent unknown although the messages are not empty, opus active, share > 40
C14_WitnessUnknown ==
    /\ Returned /\ Usage < 90 /\ ~Rule2Matches
    /\ TaskIntent = UNKNOWN /\ ~g_args.recent_messages.empty /\ g_args.recent_messages.planning_hits > 0
    /\ OpusActive /\ OpusShare > 40

(***************************************************************************)
(* Properties of the time window and the cost projection (SpecCalc)        *)
(***************************************************************************)
\* the session path ran: calculate_time_data and calculate_cost_predictions
SessionDone == cpc = "session"

\* either path ran: calculate_time_data returned
TimeDone == cpc \in {"simple", "session"}

Zero == <<0, 1>>

RatePositive == Zero[1] * cost_data.cost_per_minute[2] < cost_data.cost_per_minute[1] * Zero[2]

\* remaining capacity, max(0, ceiling - cost)
Capacity == IF cost_data.cost_limit > c_args.costUSD THEN cost_data.cost_limit - c_args.costUSD ELSE 0

\* the instant calculate_cost_predictions takes as now
CostNow == c_args.current_time + c_args.delay

\* instant x, a rational number of seconds, is the whole second t
AtInstant(x, t) == x[1] = t * x[2]

RECURSIVE Gcd(_, _)
Gcd(a, b) == IF b = 0 THEN a ELSE Gcd(b, a % b)

\* the fraction x >= 0 in lowest terms
Lowest(x) == LET g == Gcd(x[1], x[2]) IN <<x[1] \div g, x[2] \div g>>

\* C15: for every cost so far and every ceiling, whenever the rate per
\* minute calculate_cost_predictions computed is <= 0, predicted_end_time is
\* the reset instant of the window.
C15_NoRateProjectsReset ==
    (SessionDone /\ ~RatePositive) =>
        AtInstant(cost_data.predicted_end_time, time_data.reset_time)

\* rate 0 although there is a cost and capacity is left: no time has elapsed
C15_Witness ==
    /\ SessionDone /\ ~RatePositive /\ Capacity > 0
    /\ c_args.costUSD > 0
    /\ AtInstant(cost_data.predicted_end_time, time_data.reset_time)

\* C16: when rate > 0 and the remaining capacity max(0, ceiling - cost) is
\* > 0, predicted_end_time is now + remaining capacity / rate minutes; when
\* rate > 0 and the remaining capacity is 0, it is the reset instant.
C16_ProjectionInstant ==
    (SessionDone /\ RatePositive) =>
        IF Capacity > 0
        THEN LET ahead == Lowest(<<cost_data.predicted_end_time[1] - CostNow * cost_data.predicted_end_time[2], cost_data.predicted_end_time[2]>>)
                 rate  == Lowest(cost_data.cost_per_minute)
             IN  \* seconds ahead of now * rate per minute = 60 * capacity
                 ahead[1] * rate[1] = 60 * Capacity * rate[2] * ahead[2]
        ELSE AtInstant(cost_data.predicted_end_time, time_data.reset_time)

\* cost 30 of a ceiling of 50 after 150 minutes: the rest lasts 100 minutes
C16_Witness ==
    /\ SessionDone /\ RatePositive /\ Capacity = 20
    /\ c_args.costUSD = 30 /\ time_data.elapsed_session_minutes[1] = 150 * time_data.elapsed_session_minutes[2]
    /\ AtInstant(cost_data.predicted_end_time, CostNow + 6000)
    /\ CostNow + 6000 # time_data.reset_time

\* rate > 0 with the cost at or above the ceiling: the reset instant
C16_WitnessNoCapacity ==
    /\ SessionDone /\ RatePositive /\ Capacity = 0 /\ c_args.costUSD > cost_data.cost_limit
    /\ AtInstant(cost_data.predicted_end_time, time_data.reset_time)

\* rate r is cost / divisor, for a rational divisor > 0
IsCostOver(r, divisor) == r[1] * divisor[1] = c_args.costUSD * divisor[2] * r[2]

\* max(1, elapsed minutes)
FlooredElapsed ==
    IF time_data.elapsed_session_minutes[1] > time_data.elapsed_session_minutes[2]
    THEN time_data.elapsed_session_minutes
    ELSE <<1, 1>>

ElapsedIsZero == time_data.elapsed_session_minutes[1] = 0

\* C17 as stated: the rate per minute is cost / max(1, elapsed minutes) for
\* every cost and every elapsed minutes >= 0, elapsed = 0 included.
\* Violated at elapsed = 0 with a cost > 0, where the rate is 0.
C17_RateAsStated ==
    SessionDone =>
        /\ IsCostOver(cost_data.cost_per_minute, FlooredElapsed)
        /\ IsCostOver(shown.cost_per_min, FlooredElapsed)

\* C17: the rate per minute, in calculate_cost_predictions and on the
\* session screen, is cost / max(1, elapsed minutes) for every cost and every
\* elapsed minutes > 0, below one minute included, and is 0 when the elapsed
\* minutes are 0.
C17_RateWithFloor ==
    SessionDone =>
        IF ElapsedIsZero
        THEN cost_data.cost_per_minute[1] = 0 /\ shown.cost_per_min[1] = 0
        ELSE /\ IsCostOver(cost_data.cost_per_minute, FlooredElapsed)
             /\ IsCostOver(shown.cost_per_min, FlooredElapsed)

\* half a minute into the window the rate is the whole cost
C17_Witness ==
    /\ SessionDone /\ c_args.costUSD = 30
    /\ time_data.elapsed_session_minutes[1] > 0
    /\ time_data.elapsed_session_minutes[1] < time_data.elapsed_session_minutes[2]
    /\ cost_data.cost_per_minute[1] = 30 * cost_data.cost_per_minute[2]

\* a cost before any time has elapsed: rate 0
C17_WitnessZero ==
    /\ SessionDone /\ c_args.costUSD > 0 /\ ElapsedIsZero
    /\ cost_data.cost_per_minute[1] = 0

\* the instants the two timestamp strings denote, in seconds of UTC
StartInstant == c_args.startTime.local - c_args.startTime.offset

EndInstant == c_args.endTime.local - c_args.endTime.offset

StartGiven == c_args.startTime.kind = "iso"

EndGiven == c_args.endTime.kind = "iso"

\* the end is None or the empty string
EndAbsent == c_args.endTime.kind \in {"none", "empty"}

\* m minutes are exactly sec seconds
IsSeconds(m, sec) == 60 * m[1] = sec * m[2]

\* C18: with start and end present and start <= now, elapsed = now - start,
\* total = end - start and remaining = end - now, so that elapsed + remaining
\* = total.
C18_ExactWindow ==
    (TimeDone /\ StartGiven /\ EndGiven /\ StartInstant =< c_args.current_time) =>
        /\ IsSeconds(time_data.elapsed_session_minutes, c_args.current_time - StartInstant)
        /\ IsSeconds(time_data.total_session_minutes, EndInstant - StartInstant)
        /\ IsSeconds(time_data.minutes_to_reset, EndInstant - c_args.current_time)
        /\ RatEq(RatAdd(time_data.elapsed_session_minutes, time_data.minutes_to_reset), time_data.total_session_minutes)

\* start = T, end = T + 300 min, now = T + 150 min, both strings written
\* with an offset of one hour: 150, 150 and 300 minutes
C18_Witness ==
    /\ TimeDone /\ StartInstant = T /\ EndInstant = T + 300 * 60 /\ c_args.current_time = T + 150 * 60
    /\ c_args.startTime.offset = 3600 /\ c_args.endTime.offset = 3600
    /\ time_data.elapsed_session_minutes[1] = 150 * time_data.elapsed_session_minutes[2]
    /\ time_data.minutes_to_reset[1] = 150 * time_data.minutes_to_reset[2]
    /\ time_data.total_session_minutes[1] = 300 * time_data.total_session_minutes[2]

\* the seconds from now to the default end of the window
DefaultRemaining == IF StartGiven THEN StartInstant + 300 * 60 - c_args.current_time ELSE 300 * 60

\* C19: with the end absent, total = 300 minutes, remaining is measured to
\* start + 300 minutes when a start is present and to now + 300 minutes
\* otherwise, and elapsed = max(0, 300 - remaining).
C19_DefaultWindow ==
    (TimeDone /\ EndAbsent) =>
        /\ time_data.total_session_minutes[1] = 300 * time_data.total_session_minutes[2]
        /\ IsSeconds(time_data.minutes_to_reset, DefaultRemaining)
        /\ IsSeconds(time_data.elapsed_session_minutes, IF 300 * 60 - DefaultRemaining > 0 THEN 300 * 60 - DefaultRemaining ELSE 0)

\* the end is an empty string, the start is present: 150 minutes elapsed
C19_Witness ==
    /\ TimeDone /\ c_args.endTime.kind = "empty" /\ StartGiven
    /\ time_data.elapsed_session_minutes[1] = 150 * time_data.elapsed_session_minutes[2]
    /\ time_data.reset_time = StartInstant + 300 * 60

\* neither end nor start: remaining 300, elapsed 0
C19_WitnessNoStart ==
    /\ TimeDone /\ ~EndGiven /\ ~StartGiven
    /\ time_data.reset_time = c_args.current_time + 300 * 60
    /\ time_data.elapsed_session_minutes[1] = 0

\* now before the start, end absent: the elapsed minutes are floored at 0
C19_WitnessFloor ==
    /\ TimeDone /\ ~EndGiven /\ StartGiven /\ c_args.current_time < StartInstant
    /\ time_data.elapsed_session_minutes[1] = 0

\* C20: the elapsed minutes calculate_time_data returns are never negative,
\* and every remaining-minutes value handed to a display component or to
\* the guidance engine, on the session path and on the simple path, is >= 0.
\* Violated on the simple path for a window whose end has passed.
C20_ElapsedAndShownNeverNegative ==
    TimeDone =>
        /\ time_data.elapsed_session_minutes[1] >= 0
        /\ shown.minutes_to_reset[1] >= 0
        /\ shown.time_remaining[1] >= 0

\* C20, the part that holds: the elapsed minutes are never negative, and the
\* session display hands on max(0, total - elapsed)
C20_ElapsedAndSessionMinutesNeverNegative ==
    /\ TimeDone => time_data.elapsed_session_minutes[1] >= 0
    /\ SessionDone => shown.minutes_to_reset[1] >= 0 /\ shown.time_remaining[1] >= 0

\* the session display floors a negative total - elapsed at 0
C20_WitnessSessionFloor ==
    /\ SessionDone
    /\ RatLt(time_data.total_session_minutes, time_data.elapsed_session_minutes)
    /\ shown.minutes_to_reset[1] = 0

\* calculate_time_data was called (an active block was found)
TimeCalled == cpc \in {"simple", "session", "raised"} \/ (cpc = "error" /\ c_args.data = "active_block")

\* the timestamp with a malformed string replaced by a missing one
AsAbsent(stamp) == IF stamp.kind = "malformed" THEN [kind |-> "none", local |-> 0, offset |-> 0] ELSE stamp

SomeStampMalformed == c_args.startTime.kind = "malformed" \/ c_args.endTime.kind = "malformed"

\* C21: a malformed start or end timestamp string is treated as absent:
\* calculate_time_data gives the result it gives with that field missing, and
\* no error escapes it.  Violated by a malformed end, and by a malformed
\* start the timestamp handler raises on.
C21_MalformedTreatedAsAbsent ==
    (TimeCalled /\ SomeStampMalformed) =>
        /\ ~time_data.raised
        /\ time_data = calculate_time_data(AsAbsent(c_args.startTime), AsAbsent(c_args.endTime), c_args.current_time, c_args.bad_outcome)

\* C21, the part that holds: a malformed start the timestamp handler gives
\* None for, next to an end that is not malformed, is treated as absent
C21_MalformedStartAsAbsent ==
    (TimeCalled /\ c_args.startTime.kind = "malformed" /\ c_args.endTime.kind # "malformed" /\ c_args.bad_outcome = "none") =>
        /\ ~time_data.raised
        /\ time_data = calculate_time_data(AsAbsent(c_args.startTime), c_args.endTime, c_args.current_time, c_args.bad_outcome)

\* a malformed start next to a well-formed end: the default duration
C21_WitnessStart ==
    /\ TimeDone /\ c_args.startTime.kind = "malformed" /\ c_args.endTime.kind = "iso"
    /\ ~time_data.raised
    /\ time_data.total_session_minutes[1] = 300 * time_data.total_session_minutes[2]

(***************************************************************************)
(* Properties of the Pac-Man border (SpecBorder)                           *)
(***************************************************************************)
AnimationEnabled == border.created /\ ~border.no_motion /\ border.is_tty

\* 2*(width-2) + 2*(height-2)
BorderPerimeter == 2 * (border.width - 2) + 2 * (border.height - 2)

\* C22: with animation enabled, perimeter calls of advance() from any
\* reachable state bring position and mouth phase back to what they were
\* before the calls, and the position stays within [0, perimeter).
C22_PeriodIsPerimeter ==
    AnimationEnabled =>
        \A i \in 1..Len(b_trace) :
            /\ b_trace[i].position >= 0
            /\ b_trace[i].position < BorderPerimeter
            /\ i > BorderPerimeter => b_trace[i] = b_trace[i - BorderPerimeter]

\* the border of get_pacman_border, perimeter 202: the pose after 4 calls is
\* the pose after 206 calls, and the mouth is the one of the start
C22_Witness ==
    /\ AnimationEnabled /\ border.width = 70 /\ border.height = 35
    /\ Len(b_trace) = 207
    /\ b_trace[207] = b_trace[5]
    /\ border.position = 4 /\ border.mouth_open

(***************************************************************************)
(* Properties of the frames (SpecFrames)                                   *)
(***************************************************************************)
\* C23: on every frame the border is static and advance() is a no-op exactly
\* when, at that frame, the output is no interactive terminal or motion
\* suppression is requested, whatever screens were rendered before.
\* Violated: the shared border keeps the terminal state and the no_motion
\* argument of the call that created it.
C23_StaticDecidedPerFrame ==
    \A i \in 1..Len(frames) :
        (frames[i].drawn_by = "update" /\ frames[i].bordered) =>
            /\ frames[i].static <=> (~frames[i].isatty \/ frames[i].no_motion)
            /\ frames[i].moved <=> ~(~frames[i].isatty \/ frames[i].no_motion)

\* C23, the part that holds: every frame follows the terminal state and the
\* no_motion argument of the call that created the shared border
C23_StaticDecidedAtCreation ==
    \A i \in 1..Len(frames) :
        (frames[i].drawn_by = "update" /\ frames[i].bordered) =>
            /\ frames[i].static <=> (border.no_motion \/ ~border.is_tty)
            /\ frames[i].moved <=> ~frames[i].static

\* a session frame is animated although motion suppression is requested:
\* the border was created for an error screen
C23_WitnessCached ==
    /\ Len(frames) >= 2
    /\ frames[1].screen = "error"
    /\ frames[2].screen = "session" /\ frames[2].no_motion /\ frames[2].isatty
    /\ ~frames[2].static /\ frames[2].moved

\* number of frames the live display drew on its timer
RECURSIVE TimerFrames(_)
TimerFrames(n) ==
    IF n = 0 THEN 0
    ELSE TimerFrames(n - 1) + (IF frames[n].drawn_by = "timer" THEN 1 ELSE 0)

\* the animation was enabled at every frame
AlwaysAnimated ==
    \A i \in 1..Len(frames) : frames[i].bordered /\ frames[i].isatty /\ ~frames[i].no_motion /\ ~frames[i].static

\* C24: the position advances by exactly one step each time the render
\* activity draws a frame on its timer: the number of advances is the number
\* of rendered frames, whether or not a data update came in between.
\* Violated: advance() runs once per data update, not once per drawn frame.
C24_OneAdvancePerDrawnFrame ==
    AlwaysAnimated => b_moves = TimerFrames(Len(frames))

\* C24, the part that holds: with animation enabled the position advances by
\* exactly one step per frame built on a data update
C24_OneAdvancePerBuiltFrame ==
    AlwaysAnimated => b_moves = Len(frames) - TimerFrames(Len(frames))

\* three frames drawn on the timer after one data update: one advance
C24_WitnessTimer ==
    /\ AlwaysAnimated /\ Len(frames) = 4 /\ TimerFrames(4) = 3
    /\ b_moves = 1 /\ border.position = 1

(***************************************************************************)
(* Properties of the guidance step (SpecAction)                            *)
(***************************************************************************)
\* the guidance the last guidance step was given
LastGuidance == CHOOSE g \in GuidanceInputs : g.action_command = Handler(0).arg

\* the last handler was the guidance step of render
LastWasRender == Len(hist) >= 1 /\ Handler(0).op = "render"

\* C30: after each run of the guidance step of SimpleDisplayComponent.render,
\* with no keypress in between, the pending command is the guidance's action
\* command when the guidance is interactive, has a prompt and a command and
\* the command is not in the dismissed set; otherwise it is none.
C30_PendingFollowsGuidance ==
    LastWasRender =>
        action_state.current_action =
            IF /\ LastGuidance.interactive
               /\ LastGuidance.action_prompt # None
               /\ LastGuidance.action_command # None
               /\ LastGuidance.action_command \notin action_state.dismissed_actions
            THEN LastGuidance.action_command
            ELSE None

\* a guidance without action came after one whose command was pending: the
\* pending command is none again
C30_Witness ==
    /\ LastWasRender
    /\ ~LastGuidance.interactive
    /\ Handler(0).pending # None
    /\ action_state.current_action = None

\* an interactive guidance whose command is not dismissed made it pending
C30_WitnessPending ==
    /\ LastWasRender
    /\ LastGuidance.interactive
    /\ Handler(0).pending = None
    /\ action_state.current_action = LastGuidance.action_command
    /\ action_state.dismissed_actions # {}

(***************************************************************************)
(* Properties of the screens without a session (SpecCalc)                  *)
(***************************************************************************)
\* create_data_display has returned or raised
DisplayDone == cpc # "update"

\* the screens of an active session
SessionFrames == {"session", "simple"}

\* C29: a data update without usable data (empty, or no 'blocks' entry)
\* gives the error screen and one with blocks of which none is active gives
\* the no-active-session screen; neither raises, neither runs the
\* notification or the guidance pipeline, and both screens differ from the
\* frame of an active session.
C29_ScreensWithoutSession ==
    DisplayDone =>
        /\ c_args.data \in {"empty", "no_blocks_key"} =>
               /\ cpc = "error" /\ shown.screen = "error"
               /\ ~shown.notified /\ ~shown.guided
        /\ c_args.data = "no_active_block" =>
               /\ cpc = "no_session" /\ shown.screen = "no_active_session"
               /\ ~shown.notified /\ ~shown.guided
        /\ c_args.data # "active_block" =>
               /\ shown.screen \notin SessionFrames
               /\ time_data = NoTimeData /\ cost_data = NoCostData

\* a dict without 'blocks' gave the error screen although its timestamps
\* and cost would have made a session frame
C29_Witness ==
    /\ DisplayDone
    /\ c_args.data = "no_blocks_key"
    /\ c_args.startTime.kind = "iso" /\ c_args.endTime.kind = "iso"
    /\ shown.screen = "error" /\ ~shown.guided /\ ~shown.notified

\* blocks without an active one gave the no-active-session screen
C29_WitnessNoSession ==
    /\ DisplayDone
    /\ c_args.data = "no_active_block"
    /\ c_args.endTime.kind = "malformed"
    /\ shown.screen = "no_active_session" /\ cpc = "no_session"

(***************************************************************************)
(* Properties of the monitoring loop (SpecMonitor)                         *)
(***************************************************************************)
\* _run_monitoring has returned
Exited == mpc = "exited"

\* the ways the session may end: the user's stop, or a start that failed
AllowedEnds == {"interrupt", "no_data_paths", "startup_error"}

\* C25: no error raised while a data update (auto-trigger launch, building
\* the display, updating the live display) or a keypress is handled ends the
\* monitoring loop: it is caught and the loop goes on; the loop ends only on
\* the user's stop or a start that cannot succeed.
C25_ErrorsDoNotEndLoop ==
    /\ Exited => mon.ended_by \in AllowedEnds
    /\ (m_count.events > 0 /\ mon.ended_by # "interrupt") => mpc = "loop"

\* two errors were caught and a handler ran after the first; the loop is
\* still polling
C25_Witness ==
    /\ mpc = "loop"
    /\ m_count.errors >= 2
    /\ m_count.after_error >= 2

\* C26 (auto-trigger): after a launch of the auto-trigger failed, the
\* following data updates do not attempt it again on their own: no attempt
\* follows a failed one within the cooldown.
\* Violated: last_compact_time is set only after Popen returned, so the next
\* data update attempts the launch again.
C26_NoAutomaticRetry ==
    \A i \in 1..Len(m_attempts) :
        (i > 1 /\ ~m_attempts[i - 1].ok) =>
            m_attempts[i].time - m_attempts[i - 1].time >= COMPACT_COOLDOWN

\* C26 (accept), the part that holds: launches of the pending command are
\* attempted by handle_keypress('y') only, one for each keypress at most
C26_AcceptOnlyOnKeypress == m_count.accepts <= m_count.y_keys

\* an accept failed, a data update followed, and nothing more was launched
C26_WitnessAccept ==
    /\ m_count.accepts = 1 /\ m_count.y_keys = 1
    /\ launched # <<>> /\ ~launched[1].ok
    /\ m_count.after_error >= 1
    /\ m_attempts = <<>>

\* C27: the auto-trigger launches the compact command only on a data update
\* where auto-compact is enabled, the token limit is positive and usage is at
\* least 70%, and any two launches of one session are at least 600 s apart.
C27_AutoTriggerGated ==
    /\ \A i \in 1..Len(m_attempts) :
           /\ m_attempts[i].enabled
           /\ m_attempts[i].token_limit > 0
           /\ m_attempts[i].total_tokens * 100 >= 70 * m_attempts[i].token_limit
    /\ \A i, j \in 1..Len(m_attempts) :
           (i < j /\ m_attempts[i].ok /\ m_attempts[j].ok) =>
               m_attempts[j].time - m_attempts[i].time >= 600

\* two launches, the second exactly 600 s after the first, at 70% usage
C27_Witness ==
    /\ Len(m_attempts) = 2
    /\ m_attempts[1].ok /\ m_attempts[2].ok
    /\ m_attempts[2].time - m_attempts[1].time = 600
    /\ m_attempts[2].total_tokens = 70

\* C28: the stop signal (KeyboardInterrupt in the polling loop) ends all
\* activities: on every path out of _run_monitoring after the orchestrator
\* was started, orchestrator.stop() was called, the live display was left
\* and the terminal was restored; the polling loop ends in no other way.
C28_StopEndsEverything ==
    (Exited /\ mon.orchestrator # "none") =>
        /\ mon.orchestrator = "stopped"
        /\ mon.live = "exited"
        /\ mon.terminal = "restored"
        /\ m_count.events > 0 => mon.ended_by = "interrupt"

\* the user stopped a session in which handlers had run and failed
C28_Witness ==
    /\ Exited
    /\ mon.ended_by = "interrupt"
    /\ m_count.events >= 2 /\ m_count.errors >= 1
    /\ mon.orchestrator = "stopped" /\ mon.live = "exited" /\ mon.terminal = "restored"

(***************************************************************************)
(* Properties of the dismissed set and of the keys without effect          *)
(* (SpecAction)                                                            *)
(***************************************************************************)
\* C38: the dismissed set only grows during a session: no handler removes a
\* command from it, and accepting with 'y' adds nothing to it.
C38_DismissedOnlyGrows ==
    [][/\ action_state.dismissed_actions \subseteq action_state'.dismissed_actions
       /\ \A popen_ok \in BOOLEAN :
              handle_keypress("y", popen_ok) =>
                  action_state'.dismissed_actions = action_state.dismissed_actions]_vars

\* a command was accepted and launched, the next guidance step made it
\* pending again, and a command declined earlier is still dismissed
C38_Witness ==
    /\ Len(hist) >= 2
    /\ Handler(1).op = "key" /\ Handler(1).arg = "y" /\ Handler(1).pending # None
    /\ Handler(0).op = "render" /\ Handler(0).arg = Handler(1).pending
    /\ launched # <<>> /\ launched[1].ok
    /\ action_state.current_action = Handler(1).pending
    /\ action_state.dismissed_actions # {}

\* C39: handle_keypress leaves the ActionState unchanged and launches no
\* command when no command is pending, for every key, and when the key is
\* neither 'y' nor 'n', for every pending command.
C39_OtherKeysChangeNothing ==
    [][\A key \in KeyInputs, popen_ok \in BOOLEAN :
           (/\ handle_keypress(key, popen_ok)
            /\ (action_state.current_action = None \/ key \notin {"y", "n"}))
               => /\ action_state' = action_state
                  /\ launched' = <<>>
                  /\ key_result' = None]_vars

\* 'q' was pressed while a command was pending: it is still pending
C39_Witness ==
    /\ Len(hist) >= 1
    /\ Handler(0).op = "key" /\ Handler(0).arg = "q" /\ Handler(0).pending # None
    /\ action_state.current_action = Handler(0).pending
    /\ launched = <<>> /\ key_result = None

\* 'y' was pressed while nothing was pending: nothing was launched
C39_WitnessNothingPending ==
    /\ Len(hist) >= 1
    /\ Handler(0).op = "key" /\ Handler(0).arg = "y" /\ Handler(0).pending = None
    /\ action_state.current_action = None /\ action_state.dismissed_actions # {}
    /\ launched = <<>> /\ key_result = None

(***************************************************************************)
(* Bounds of the elapsed minutes (SpecCalc)                                *)
(***************************************************************************)
\* the window is overdue: the current instant is past the reset instant
Overdue == RatLt(time_data.minutes_to_reset, RatOf(0))

C40_WitnessBeforeStart ==
    /\ TimeDone
    /\ StartGiven /\ EndGiven /\ ~Overdue
    /\ c_args.current_time < time_data.start_time
    /\ RatEq(time_data.elapsed_session_minutes, RatOf(0))

(***************************************************************************)
(* Task type (SpecGuidance)                                                *)
(***************************************************************************)
\* the messages the call was given
Messages == g_args.recent_messages

\* keyword hits plus the bonuses for a source-file suffix, a code fence and
\* a source-path marker
ImplementationTally ==
    Messages.coding_hits
        + (IF Messages.has_suffix THEN 2 ELSE 0)
        + (IF Messages.has_fence THEN 2 ELSE 0)
        + (IF Messages.has_src_or_lib /\ Messages.has_slash THEN 1 ELSE 0)

ExplorationTally == Messages.planning_hits

\* C33: detect_task_type gives CODING exactly when the implementation tally
\* exceeds the exploration tally by more than one, PLANNING exactly when the
\* exploration tally exceeds the implementation tally by more than one, and
\* UNKNOWN in every other case: a tie, a difference of one, no messages.
C33_TaskTypeByLeadOfTwo ==
    Returned =>
        /\ g_task = CODING <=> (~Messages.empty /\ ImplementationTally - ExplorationTally > 1)
        /\ g_task = PLANNING <=> (~Messages.empty /\ ExplorationTally - ImplementationTally > 1)
        /\ g_task = UNKNOWN <=>
               \/ Messages.empty
               \/ (ImplementationTally - ExplorationTally \in -1..1)

\* the implementation tally leads by exactly one, bonuses included: UNKNOWN
C33_Witness ==
    /\ Returned
    /\ ~Messages.empty
    /\ Messages.has_suffix /\ Messages.has_src_or_lib
    /\ ImplementationTally = ExplorationTally + 1
    /\ g_task = UNKNOWN

\* a code fence alone gives a lead of two: CODING
C33_WitnessCoding ==
    /\ Returned
    /\ Messages.has_fence /\ Messages.coding_hits = 0
    /\ g_task = CODING

\* two exploration keywords and nothing else: PLANNING
C33_WitnessPlanning ==
    /\ Returned
    /\ ExplorationTally = 2 /\ ImplementationTally = 0
    /\ g_task = PLANNING

(***************************************************************************)
(* Show flags and conditions (SpecNotif)                                   *)
(***************************************************************************)
\* C34: in every cycle each of the three show flags _check_notifications
\* returns is false whenever the condition of that flag is false in that
\* cycle, whatever the notification manager has stored.
C34_NoFlagWithoutCondition ==
    \A k \in NotifKeys : ~conds[k] => ~notifications[k]

\* a condition that was notified in an earlier cycle is false in this one:
\* its flag is false although the manager still holds it as notified
C34_Witness ==
    \E k \in NotifKeys :
        /\ prev_conds[k] /\ ~conds[k]
        /\ notif_states[k]
        /\ ~notifications[k]
        /\ \E other \in NotifKeys : conds[other] /\ notifications[other]

(***************************************************************************)
(* Cost conditions of one cycle (SpecCalc)                                 *)
(***************************************************************************)
\* session cost > cost limit, as _check_notifications is given them
CostExceeded == ExceedCondition(c_args.costUSD, cost_data.cost_limit)

\* predicted end time < reset time, as _check_notifications is given them
WillRunOut == RunOutCondition(cost_data.predicted_end_time, time_data.reset_time)

\* C35: in every cycle of _process_active_session_data the conditions
\* 'session cost > cost limit' and 'predicted end time < reset time' are
\* never both true: once the cost exceeds the limit the predicted end time
\* is the reset time.
C35_ExceededExcludesRunOut ==
    SessionDone =>
        /\ ~(CostExceeded /\ WillRunOut)
        /\ CostExceeded =>
               cost_data.predicted_end_time[1] = time_data.reset_time * cost_data.predicted_end_time[2]

\* the cost is over the limit at a positive rate: no projection is made
C35_Witness ==
    /\ SessionDone
    /\ c_args.costUSD = 120
    /\ cost_data.cost_limit \in {50, 100}
    /\ cost_data.cost_remaining = 0
    /\ RatLt(<<0, 1>>, cost_data.cost_per_minute)
    /\ cost_data.predicted_end_time = <<time_data.reset_time, 1>>
    /\ c_args.current_time < time_data.reset_time

\* the cost is under the limit and runs out before the reset
C35_WitnessRunOut ==
    /\ SessionDone
    /\ ~CostExceeded /\ WillRunOut

(***************************************************************************)
(* Limits passed to the notifications (SpecLimits)                         *)
(***************************************************************************)
\* C36: in every cycle of _process_active_session_data the token limit and
\* the original limit passed to _check_notifications are equal, so the
\* condition 'token limit > original limit' is false and
\* show_switch_notification is false in every reachable state, for every
\* plan and every custom limit.
C36_LimitsAlwaysEqual ==
    /\ l_limits[1] = l_limits[2]
    /\ ~conds["switch_to_custom"]
    /\ ~notifications["switch_to_custom"]
    /\ ~notif_states["switch_to_custom"]

\* a custom plan whose custom limit is above the token limit of the call:
\* both limits are the custom limit, and the cycle showed another flag
C36_Witness ==
    /\ l_args.plan = "custom" /\ l_args.has_custom_limit
    /\ l_args.custom_limit_tokens > l_args.token_limit
    /\ l_limits = <<l_args.custom_limit_tokens, l_args.custom_limit_tokens>>
    /\ ~notifications["switch_to_custom"]
    /\ notifications["exceed_max_limit"]

(***************************************************************************)
(* The Pac-Man glyph of a frame (SpecBorder)                               *)
(***************************************************************************)
\* the characters that show Pac-Man
PacGlyphs == {"PAC_RIGHT", "PAC_LEFT", "PAC_UP", "PAC_DOWN", "PAC_CLOSED"}

\* the border cells of the frame that show Pac-Man
PacCells == {c \in FrameCells(border) : c.char \in PacGlyphs}

\* the glyph of the segment Pac-Man moves along
DirectionGlyph(direction) ==
    CASE direction = "right" -> "PAC_RIGHT"
      [] direction = "down" -> "PAC_DOWN"
      [] direction = "left" -> "PAC_LEFT"
      [] direction = "up" -> "PAC_UP"

\* the cell _get_border_char designates for the position of the border
Designated == get_border_char(border, border.position)

\* C32: with animation enabled and a buffer of height - 2 rows, for every
\* position exactly one border cell of the frame shows a Pac-Man glyph; it
\* is the cell _get_border_char designates for the position, and the glyph
\* is the direction glyph of its segment or the closed-mouth glyph.
\* Violated: on the right edge render_middle tests w + row where
\* _get_border_char has pos - w + 1.
C32_OnePacManCell ==
    AnimationEnabled =>
        /\ Cardinality(PacCells) = 1
        /\ \A c \in PacCells :
               /\ c.row = Designated.row /\ c.col = Designated.col
               /\ c.char \in {DirectionGlyph(Designated.direction), "PAC_CLOSED"}

\* C32, the part that holds: on the top, bottom and left segments, the
\* first cell of the bottom segment excepted, exactly one cell shows
\* Pac-Man and it is the designated one
C32_OnePacManCellOffTheRightEdge ==
    (/\ AnimationEnabled
     /\ Designated.direction # "down"
     /\ border.position # (border.width - 2) + (border.height - 2)) =>
        /\ Cardinality(PacCells) = 1
        /\ \A c \in PacCells :
               /\ c.row = Designated.row /\ c.col = Designated.col
               /\ c.char \in {DirectionGlyph(Designated.direction), "PAC_CLOSED"}

\* Pac-Man on the left edge of the 70 x 35 border, in the designated cell
C32_WitnessLeft ==
    /\ AnimationEnabled
    /\ border.width = 70 /\ border.height = 35
    /\ Designated.direction = "up"
    /\ Cardinality(PacCells) = 1
    /\ \E c \in PacCells : c.col = 0 /\ c.row = Designated.row /\ c.char = "PAC_UP"

\* at the first position of the right edge no cell shows Pac-Man
C32_WitnessNone ==
    /\ AnimationEnabled
    /\ border.position = border.width - 2
    /\ PacCells = {}

\* at the first position of the bottom edge two cells show Pac-Man
C32_WitnessTwo ==
    /\ AnimationEnabled
    /\ border.position = (border.width - 2) + (border.height - 2)
    /\ Cardinality(PacCells) = 2


(***************************************************************************)
(* Properties of the prompt in the frame                                   *)
(***************************************************************************)

\* the last handler built a frame, by either display path
FrameJustBuilt == Len(hist) >= 1 /\ Handler(0).op \in {"render", "session_render"}

\* C31: a frame built by either display path, SimpleDisplayComponent.render
\* or SessionDisplayComponent._render_guidance_section, never contains the
\* Y/N prompt of a command that has been declined
C31_NoPromptOnceDeclined ==
    (FrameJustBuilt /\ prompted # None) => prompted \notin action_state.dismissed_actions

\* the same for the frames of SimpleDisplayComponent.render alone
PromptHonoursDeclineInSimpleDisplay ==
    (Len(hist) >= 1 /\ Handler(0).op = "render" /\ prompted # None)
        => prompted \notin action_state.dismissed_actions

\* C37: a command launched by handle_keypress('y') is the command whose Y/N
\* prompt was in the frame most recently handed to the live display when
\* the key was pressed
C37_LaunchedIsPrompted == launched # <<>> => launched[1].cmd = k_seen

\* the same for key presses made while some prompt was on the screen
LaunchedIsPromptedWhenPrompted ==
    (launched # <<>> /\ k_seen # None) => launched[1].cmd = k_seen


====
